---- MODULE Spec2Model ----
(***************************************************************************)
(* A model of the rule-based file classification and organization engine   *)
(* of AUTOMATA02: the classifier (core/classifier.py), the organizer       *)
(* (core/organizer.py), the rule store (core/config_manager.py), the       *)
(* activity log and inventory (core/database.py) and the debounced file     *)
(* watcher (core/file_watcher.py).                                         *)
(***************************************************************************)
EXTENDS Integers, Sequences, FiniteSets, TLC

VARIABLES
    fs,             \* the filesystem: [files, bulk]
    activity_log,   \* rows of the activity_log table, in insertion order
    call,           \* the last organizer call: arguments, outcome, return value
    clock,          \* datetime.now(): the current year
    cls,            \* the classification handed to the organizer
    nops,           \* organize_file calls made so far
    ncreated,       \* files that arrived in the watched folder so far
    rules,          \* the rule list stored in rules.json
    _running,       \* FileWatcher._running
    observer,       \* the watchdog Observer thread: new, alive, stopping, dead
    watches,        \* the directories scheduled on the observer
    ctl,            \* where the thread that calls start() and stop() stands
    obs,            \* the handler call the observer thread is inside
    _debounce_events, \* FileWatcherHandler._debounce_events: key -> timer
    timers,         \* every threading.Timer created, in creation order
    inventory,      \* the rows of the inventory table
    saving          \* the _save_rules call that has rules.json open for writing

orgVarsButCall == <<fs, activity_log, clock, cls, nops, ncreated>>
watchVars == <<_running, observer, watches, ctl, obs, _debounce_events, timers, inventory,
               saving>>
vars == <<fs, activity_log, call, clock, cls, nops, ncreated, rules,
          _running, observer, watches, ctl, obs, _debounce_events, timers, inventory,
          saving>>

----------------------------------------------------------------------------
(* Bounds of the model.                                                    *)

MaxOps == 2          \* organize_file calls per behaviour
MaxCreated == 1      \* files arriving in the watched folder per behaviour
MaxRules == 3        \* rules in the stored rule list
MaxTimers == 3       \* debounce timers created per behaviour

(* Program constants.                                                      *)

MaxConflicts == 1000 \* organizer.py:106, "if counter > 1000"

----------------------------------------------------------------------------
(* Paths.  A path is a sequence of components; a component is a file name  *)
(* split the way pathlib splits it: stem, extension (the last suffix, with *)
(* its dot) and, between them, the "_<counter>" parts conflict resolution   *)
(* has appended to the stem.                                               *)

N(stem, ext) == [stem |-> stem, ctr |-> <<>>, ext |-> ext]

Parent(p) == SubSeq(p, 1, Len(p) - 1)
Name(p) == p[Len(p)]
Join(dir, name) == Append(dir, name)

\* f"{stem}_{counter}{suffix}": the counter goes after the stem (and after any
\* counter the stem already ends with), before the last suffix.
WithCounter(name, k) == [name EXCEPT !.ctr = Append(@, k)]

HomeDir == <<N("home", "")>>
Downloads == Join(HomeDir, N("Downloads", ""))
FinanceDir == HomeDir \o <<N("Organized", ""), N("Finance", "")>>

InvoiceName == N("invoice_jan", ".pdf")
PhotoName == N("photo", ".png")
SrcInvoice == Join(Downloads, InvoiceName)
SrcPhoto == Join(Downloads, PhotoName)
SourcePaths == {SrcInvoice, SrcPhoto}

Years == {2024, 2025}

----------------------------------------------------------------------------
(* The filesystem: files, the entries written out one by one (existing    *)
(* path -> [kind, id]), and bulk, a run of numbered siblings base_1 ..      *)
(* base_upto of one name that a directory was populated with beforehand    *)
(* (upto = 0: none).                                                       *)

DirNode == [kind |-> "dir", id |-> 0]
FileNode(i) == [kind |-> "file", id |-> i]
OtherFile == FileNode(9)
NoBulk == [base |-> <<>>, upto |-> 0]

InBulk(f, p) ==
    /\ f.bulk.upto > 0
    /\ Len(p) = Len(f.bulk.base)
    /\ SubSeq(p, 1, Len(p) - 1) = SubSeq(f.bulk.base, 1, Len(p) - 1)
    /\ LET n == p[Len(p)]
           b == f.bulk.base[Len(p)]
       IN  /\ n.stem = b.stem
           /\ n.ext = b.ext
           /\ Len(n.ctr) = Len(b.ctr) + 1
           /\ SubSeq(n.ctr, 1, Len(b.ctr)) = b.ctr
           /\ n.ctr[Len(n.ctr)] \in 1..f.bulk.upto

Exists(f, p) == p = <<>> \/ p \in DOMAIN f.files \/ InBulk(f, p)
NodeAt(f, p) == IF p \in DOMAIN f.files THEN f.files[p] ELSE OtherFile
IsDir(f, p) == p = <<>> \/ (p \in DOMAIN f.files /\ f.files[p].kind = "dir")
IsFile(f, p) == Exists(f, p) /\ ~IsDir(f, p)

Put(f, p, node) ==
    [f EXCEPT !.files = [q \in DOMAIN @ \cup {p} |-> IF q = p THEN node ELSE @[q]]]
\* only entries of files are ever removed (the moved source is one)
Remove(f, p) == [f EXCEPT !.files = [q \in DOMAIN @ \ {p} |-> @[q]]]

Prefixes(p) == {SubSeq(p, 1, n) : n \in 1..Len(p)}

\* Path.mkdir(parents=True, exist_ok=True): every missing ancestor is created;
\* it fails when the path or an ancestor exists and is not a directory.
MkdirOk(f, d) == \A q \in Prefixes(d) : Exists(f, q) => IsDir(f, q)
MkdirP(f, d) ==
    [f EXCEPT !.files = [q \in DOMAIN @ \cup Prefixes(d) |->
                            IF q \in DOMAIN @ THEN @[q] ELSE DirNode]]

----------------------------------------------------------------------------
(* Path templates.  A template is the sequence of its "/"-separated         *)
(* segments; a segment is a literal or one placeholder.                    *)

TplNone == <<>>
TplDir == <<"{{HOME}}", "Organized", "Finance", "{{YYYY}}">>
TplFull == <<"{{HOME}}", "Organized", "Finance", "{{YYYY}}", "{{BASENAME}}">>
TplSelf == <<"{{HOME}}", "Downloads", "{{BASENAME}}">>
Templates == {TplNone, TplDir, TplFull, TplSelf}

ExpandSegment(seg, source_path, now) ==
    CASE seg = "{{YYYY}}" -> <<N(ToString(now), "")>>
      [] seg = "{{BASENAME}}" -> <<Name(source_path)>>
      [] seg = "{{STEM}}" -> <<[Name(source_path) EXCEPT !.ext = ""]>>
      [] seg = "{{EXT}}" -> <<N(Name(source_path).ext, "")>>
      [] seg = "{{HOME}}" -> HomeDir
      [] OTHER -> <<N(seg, "")>>

RECURSIVE ExpandFrom(_, _, _, _)
ExpandFrom(template, i, source_path, now) ==
    IF i > Len(template) THEN <<>>
    ELSE ExpandSegment(template[i], source_path, now)
             \o ExpandFrom(template, i + 1, source_path, now)

\* _expand_path_template followed by Path(destination)
_expand_path_template(template, source_path, now) ==
    ExpandFrom(template, 1, source_path, now)

----------------------------------------------------------------------------
(* Conflict resolution.                                                    *)

Candidate(destination_path, k) ==
    Join(Parent(destination_path), WithCounter(Name(destination_path), k))

\* new_path.exists() for the candidate with counter k (a counter within a
\* pre-populated run of this destination is taken by definition of the run)
Taken(f, destination_path, k) ==
    \/ k <= f.bulk.upto /\ f.bulk.base = destination_path
    \/ Exists(f, Candidate(destination_path, k))

\* The counter at which the while-loop returns new_path: the loop tries
\* counter = 1, 2, ... and gives up once counter exceeds the limit (0 stands
\* for "gave up").
FirstFreeCounter(f, destination_path, limit) ==
    IF \E k \in 1..limit : ~Taken(f, destination_path, k)
    THEN CHOOSE k \in 1..limit :
            /\ ~Taken(f, destination_path, k)
            /\ \A j \in 1..(k - 1) : Taken(f, destination_path, j)
    ELSE 0

\* a resolver that does not look whether its first candidate is taken
ResolveUnchecked(f, destination_path) ==
    IF ~Exists(f, destination_path) THEN destination_path
    ELSE Candidate(destination_path, 1)

_resolve_filename_conflict(f, destination_path) ==
    IF ~Exists(f, destination_path) THEN destination_path
    ELSE LET k == FirstFreeCounter(f, destination_path, MaxConflicts)
         IN  IF k = 0 THEN destination_path ELSE Candidate(destination_path, k)

----------------------------------------------------------------------------
(* The activity log (database.py).                                         *)

IoModes == {"none", "mkdir", "move", "unlink"}
DbModes == {"ok", "fail"}

\* a log_activity that drops the status it is given
LogWithoutStatus(log, action, file_path, status, db) ==
    IF db = "ok"
    THEN [log |-> Append(log, [action |-> action, file_path |-> file_path,
                               status |-> "success"]),
          raised |-> FALSE]
    ELSE [log |-> log, raised |-> FALSE]

\* log_activity: one INSERT into activity_log; a database error is caught
\* and only written to the logger, so the row is lost and nothing is raised.
log_activity(log, action, file_path, status, db) ==
    IF db = "ok"
    THEN [log |-> Append(log, [action |-> action, file_path |-> file_path,
                               status |-> status]),
          raised |-> FALSE]
    ELSE [log |-> log, raised |-> FALSE]

----------------------------------------------------------------------------
(* shutil.move(src, dst) of a regular file, as the standard library does   *)
(* it: into dst when dst is a directory (refusing an existing entry),      *)
(* else os.rename, which replaces an existing file at dst; when rename      *)
(* fails, copy then unlink.  io is what the operating system refuses:      *)
(* "move" makes rename and copy fail, "unlink" makes rename fail and the    *)
(* removal of the source fail after the copy was written.                  *)

RealDst(f, src, dst) == IF IsDir(f, dst) THEN Join(dst, Name(src)) ELSE dst

CanWrite(f, src, real_dst) ==
    /\ IsFile(f, src)
    /\ IsDir(f, Parent(real_dst))
    /\ ~IsDir(f, real_dst)

shutil_move(f, src, dst, io) ==
    LET real_dst == RealDst(f, src, dst)
    IN  IF IsDir(f, dst) /\ Exists(f, real_dst)
        THEN [ok |-> FALSE, fs |-> f]      \* Error: destination path already exists
        ELSE IF ~CanWrite(f, src, real_dst) \/ io = "move"
        THEN [ok |-> FALSE, fs |-> f]
        ELSE IF io = "unlink"
        THEN [ok |-> FALSE, fs |-> Put(f, real_dst, NodeAt(f, src))]
        ELSE [ok |-> TRUE, fs |-> Put(Remove(f, src), real_dst, NodeAt(f, src))]

----------------------------------------------------------------------------
(* FileOrganizer.organize_file.  The result is the new filesystem, the new *)
(* activity log, the returned path and whether an exception left the call. *)

\* organize_file with a default destination in place of the check of move_to
OrganizeByDefault(f, log, file_path, classification, now, io, db) ==
    LET move_to == IF classification.move_to = TplNone
                   THEN TplFull ELSE classification.move_to
        destination_path == _expand_path_template(move_to, file_path, now)
        mkdir_ok == io # "mkdir" /\ MkdirOk(f, Parent(destination_path))
        f1 == MkdirP(f, Parent(destination_path))
        final_destination == _resolve_filename_conflict(f1, destination_path)
        mv == shutil_move(f1, file_path, final_destination, io)
        okLog == log_activity(log, "file_organized", file_path, "success", db)
        errLog == log_activity(log, "file_organize_failed", file_path, "error", db)
    IN  IF move_to = TplNone
        THEN [fs |-> f, log |-> log, ret |-> file_path, moved |-> FALSE,
              error |-> FALSE, final |-> file_path, raised |-> FALSE]
        ELSE IF ~mkdir_ok
        THEN [fs |-> f, log |-> errLog.log, ret |-> file_path, moved |-> FALSE,
              error |-> TRUE, final |-> file_path, raised |-> errLog.raised]
        ELSE IF ~mv.ok
        THEN [fs |-> mv.fs, log |-> errLog.log, ret |-> file_path, moved |-> FALSE,
              error |-> TRUE, final |-> final_destination, raised |-> errLog.raised]
        ELSE [fs |-> mv.fs, log |-> okLog.log, ret |-> final_destination,
              moved |-> TRUE, error |-> FALSE, final |-> final_destination,
              raised |-> okLog.raised]

organize_file(f, log, file_path, classification, now, io, db) ==
    LET move_to == classification.move_to
        destination_path == _expand_path_template(move_to, file_path, now)
        mkdir_ok == io # "mkdir" /\ MkdirOk(f, Parent(destination_path))
        f1 == MkdirP(f, Parent(destination_path))
        final_destination == _resolve_filename_conflict(f1, destination_path)
        mv == shutil_move(f1, file_path, final_destination, io)
        okLog == log_activity(log, "file_organized", file_path, "success", db)
        errLog == log_activity(log, "file_organize_failed", file_path, "error", db)
    IN  IF move_to = TplNone
        THEN [fs |-> f, log |-> log, ret |-> file_path, moved |-> FALSE,
              error |-> FALSE, final |-> file_path, raised |-> FALSE]
        ELSE IF ~mkdir_ok
        THEN [fs |-> f, log |-> errLog.log, ret |-> file_path, moved |-> FALSE,
              error |-> TRUE, final |-> file_path, raised |-> errLog.raised]
        ELSE IF ~mv.ok
        THEN [fs |-> mv.fs, log |-> errLog.log, ret |-> file_path, moved |-> FALSE,
              error |-> TRUE, final |-> final_destination, raised |-> errLog.raised]
        ELSE [fs |-> mv.fs, log |-> okLog.log, ret |-> final_destination,
              moved |-> TRUE, error |-> FALSE, final |-> final_destination,
              raised |-> okLog.raised]

\* None where a path is expected
None == <<>>

\* FileOrganizer.dry_run_organize: the same expansion and conflict resolution
\* on the filesystem as it is, nothing created and nothing moved
dry_run_organize(f, file_path, classification, now) ==
    LET move_to == classification.move_to
        destination_path == _expand_path_template(move_to, file_path, now)
        final_destination == _resolve_filename_conflict(f, destination_path)
    IN  IF move_to = TplNone
        THEN [source |-> file_path, would_move |-> FALSE, destination |-> None,
              destination_exists |-> FALSE]
        ELSE [source |-> file_path, would_move |-> TRUE,
              destination |-> final_destination,
              destination_exists |-> Exists(f, final_destination)]

----------------------------------------------------------------------------
(* The organizer on its own: files appear in the watched folder and are    *)
(* organized, starting from the directory trees a user can have.           *)

NoCall == [op |-> "none"]

\* threading.Timer objects and the handler call of the observer thread
ObsIdle == [pc |-> "idle", event_type |-> "", file_path |-> None,
            old_path |-> None, cancelled |-> 0]

\* no _save_rules call is between its open() and the end of its with block
NoSave == [pc |-> "none"]

\* FileWatcher.__init__ and FileWatcherHandler.__init__
WatcherConstructed ==
    /\ _running = FALSE
    /\ observer = "new"
    /\ watches = {}
    /\ ctl = "idle"
    /\ obs = ObsIdle
    /\ _debounce_events = {}
    /\ timers = <<>>
    /\ inventory = {}
    /\ saving = NoSave

BaseFs ==
    LET dirs == {HomeDir, Downloads}
    IN  [files |-> [p \in dirs \cup SourcePaths |->
                       IF p \in dirs THEN DirNode
                       ELSE IF p = SrcInvoice THEN FileNode(1) ELSE FileNode(2)],
         bulk |-> NoBulk]

Dir2024 == Join(FinanceDir, N("2024", ""))
DstInvoice == Join(Dir2024, InvoiceName)

\* Which numbered candidates of a destination already exist: a few written
\* out, or a whole run 1..upto.
InitCandSets == {{}, {1}, {2}}
InitRuns == {MaxConflicts - 1, MaxConflicts}

WithCandidates(f, dst, S) ==
    LET cands == {Candidate(dst, k) : k \in S}
    IN  [f EXCEPT !.files = [p \in DOMAIN @ \cup cands |->
                                IF p \in DOMAIN @ THEN @[p] ELSE OtherFile]]
WithRun(f, dst, n) == [f EXCEPT !.bulk = [base |-> dst, upto |-> n]]

Populated(f, dst) ==
    {WithCandidates(f, dst, S) : S \in InitCandSets}
    \cup {WithRun(f, dst, n) : n \in InitRuns}

\* The trees a behaviour starts from, each with the move_to template of the
\* rule that sends files there: an empty tree, the destination directory
\* already there, the destination file name taken, and a destination inside
\* the watched folder itself.
OrgConfigs ==
    {[move_to |-> t, fs |-> BaseFs] : t \in {TplNone, TplDir, TplFull}}
    \cup {[move_to |-> TplDir, fs |-> f] :
            f \in Populated(MkdirP(BaseFs, Dir2024), Dir2024)}
    \cup {[move_to |-> TplFull, fs |-> f] :
            f \in Populated(Put(MkdirP(BaseFs, Dir2024), DstInvoice, FileNode(7)),
                            DstInvoice)}
    \cup {[move_to |-> TplSelf, fs |-> f] : f \in Populated(BaseFs, SrcInvoice)}

ClassificationWith(t) == [label |-> "finance", tags |-> {"invoice"}, move_to |-> t]

Destinations == {Dir2024, DstInvoice, SrcInvoice, Join(Dir2024, PhotoName)}

OrgInit ==
    /\ \E c \in OrgConfigs :
          /\ fs = c.fs
          /\ cls = ClassificationWith(c.move_to)
    /\ clock \in Years
    /\ activity_log = <<>>
    /\ call = NoCall
    /\ nops = 0
    /\ ncreated = 0
    /\ rules = <<>>
    /\ WatcherConstructed

\* organize_file is called for a file the watcher has just seen to exist
Organize(file_path, io, db) ==
    /\ nops < MaxOps
    /\ IsFile(fs, file_path)
    /\ LET r == organize_file(fs, activity_log, file_path, cls, clock, io, db)
       IN  /\ fs' = r.fs
           /\ activity_log' = r.log
           /\ call' = [op |-> "organize_file", file_path |-> file_path,
                       io |-> io, db |-> db, ret |-> r.ret, moved |-> r.moved,
                       error |-> r.error, final |-> r.final, raised |-> r.raised]
    /\ nops' = nops + 1
    /\ UNCHANGED <<clock, cls, ncreated, rules, watchVars>>

\* A new file of the same name arrives in the watched folder.
EnvCreate(p) ==
    /\ ncreated < MaxCreated
    /\ ~Exists(fs, p)
    /\ fs' = Put(fs, p, FileNode(3 + ncreated))
    /\ call' = [op |-> "create", file_path |-> p]
    /\ ncreated' = ncreated + 1
    /\ UNCHANGED <<activity_log, clock, cls, nops, rules, watchVars>>

OrgNext ==
    \/ \E p \in SourcePaths, io \in IoModes, db \in DbModes : Organize(p, io, db)
    \/ \E p \in SourcePaths : EnvCreate(p)

OrgSpec == OrgInit /\ [][OrgNext]_vars

----------------------------------------------------------------------------
(* Dry runs, as the rule tester makes them, while files arrive and are     *)
(* organized.                                                              *)

\* a dry run that prepares the destination directory as organize_file does
DryRunMakingDirs(file_path, classification) ==
    /\ LET r == dry_run_organize(fs, file_path, classification, clock)
           destination_path == _expand_path_template(classification.move_to,
                                                     file_path, clock)
       IN  /\ call' = [op |-> "dry_run_organize", file_path |-> file_path,
                       classification |-> classification, ret |-> r]
           /\ fs' = IF r.would_move /\ MkdirOk(fs, Parent(destination_path))
                     THEN MkdirP(fs, Parent(destination_path))
                     ELSE fs
    /\ UNCHANGED <<activity_log, clock, cls, nops, ncreated, rules, watchVars>>

\* dry_run_organize(file_path, classification): the report is computed from
\* the template, the clock and exists() tests; nothing is written
DryRunCall(file_path, classification) ==
    /\ LET r == dry_run_organize(fs, file_path, classification, clock)
       IN  call' = [op |-> "dry_run_organize", file_path |-> file_path,
                    classification |-> classification, ret |-> r]
    /\ UNCHANGED <<fs, activity_log, clock, cls, nops, ncreated, rules, watchVars>>

DryNext ==
    \/ \E p \in SourcePaths, t \in Templates : DryRunCall(p, ClassificationWith(t))
    \/ \E p \in SourcePaths : Organize(p, "none", "ok")
    \/ \E p \in SourcePaths : EnvCreate(p)

DrySpec == OrgInit /\ [][DryNext]_vars

----------------------------------------------------------------------------
(* The while-loop of _resolve_filename_conflict, one candidate a step.     *)
(* call holds the destination, the counter, the number of candidates       *)
(* whose existence has been tested and, once returned, the result.         *)

\* the call up to the loop: the destination is returned when it is free
ResolveCall(destination_path) ==
    /\ call.op = "_resolve_filename_conflict" => call.pc = "returned"
    /\ call' = IF ~Exists(fs, destination_path)
               THEN [op |-> "_resolve_filename_conflict",
                     destination_path |-> destination_path, pc |-> "returned",
                     counter |-> 0, examined |-> 0, ret |-> destination_path]
               ELSE [op |-> "_resolve_filename_conflict",
                     destination_path |-> destination_path, pc |-> "loop",
                     counter |-> 1, examined |-> 0, ret |-> None]
    /\ UNCHANGED <<fs, activity_log, clock, cls, nops, ncreated, rules, watchVars>>

\* one round of the loop without the check of the counter
LoopWithoutLimit ==
    /\ call.op = "_resolve_filename_conflict"
    /\ call.pc = "loop"
    /\ LET new_path == Candidate(call.destination_path, call.counter)
       IN  call' = IF ~Taken(fs, call.destination_path, call.counter)
                   THEN [call EXCEPT !.pc = "returned", !.examined = @ + 1,
                                     !.ret = new_path]
                   ELSE [call EXCEPT !.counter = @ + 1, !.examined = @ + 1]
    /\ UNCHANGED <<fs, activity_log, clock, cls, nops, ncreated, rules, watchVars>>

\* one round of the loop: new_path.exists(), counter += 1, the safety check
ResolveLoop ==
    /\ call.op = "_resolve_filename_conflict"
    /\ call.pc = "loop"
    /\ LET new_path == Candidate(call.destination_path, call.counter)
       IN  call' = IF ~Taken(fs, call.destination_path, call.counter)
                   THEN [call EXCEPT !.pc = "returned", !.examined = @ + 1,
                                     !.ret = new_path]
                   ELSE IF call.counter + 1 > MaxConflicts
                   THEN [call EXCEPT !.pc = "returned", !.counter = @ + 1,
                                     !.examined = @ + 1,
                                     !.ret = call.destination_path]
                   ELSE [call EXCEPT !.counter = @ + 1, !.examined = @ + 1]
    /\ UNCHANGED <<fs, activity_log, clock, cls, nops, ncreated, rules, watchVars>>

ResolveNext ==
    \/ \E d \in Destinations : ResolveCall(d)
    \/ ResolveLoop

ResolveSpec == OrgInit /\ [][ResolveNext]_vars

----------------------------------------------------------------------------
(* Rules (config_manager.py) and the classifier (classifier.py).           *)
(* A regular expression is modelled by what re.search decides: a pattern   *)
(* is an alternation of literal words, found or not in the lower-cased     *)
(* text, or a pattern that does not compile.                               *)

DefaultPriority == 100
NoPriority == -1
NoRule == "<absent>"
NoName == "<no name>"

BadPattern == [bad |-> TRUE, words |-> {}]
Words(ws) == [bad |-> FALSE, words |-> ws]

\* the words of the model's patterns that occur in a lower-cased file name
NameWords(name) ==
    CASE name.stem = "invoice_jan" -> {"invoice"}
      [] name.stem = "bank_photo" -> {"bank", "photo"}
      [] name.stem = "photo" -> {"photo"}
      [] name.stem = "statement" -> {"statement"}
      [] name.stem = "payment" -> {"payment"}
      [] OTHER -> {}
PathWords(path) ==
    UNION {NameWords(path[i]) : i \in 1..Len(path)}
        \cup {IF path[i].stem = "Downloads" THEN "downloads" ELSE "home" :
                 i \in 1..Len(path)}

\* mimetypes.guess_type, then _guess_mime_from_extension
MimeOf(name) ==
    CASE name.ext = ".pdf" -> "application/pdf"
      [] name.ext = ".png" -> "image/png"
      [] name.ext = ".txt" -> "text/plain"
      [] name.ext = ".mp4" -> "video/mp4"
      [] name.ext = ".mp3" -> "audio/mpeg"
      [] name.ext = ".zip" -> "application/zip"
      [] name.ext = ".py" -> "text/x-python"
      [] OTHER -> "application/octet-stream"

\* str.startswith on the MIME types of the model
MimeStartsWith(mime, prefix) ==
    \/ prefix = ""
    \/ prefix = mime
    \/ prefix = "image/" /\ mime = "image/png"
    \/ prefix = "application/" /\ mime \in {"application/pdf", "application/octet-stream",
                                            "application/zip"}
    \/ prefix = "text/" /\ mime \in {"text/plain", "text/x-python"}
    \/ prefix = "video/" /\ mime = "video/mp4"
    \/ prefix = "audio/" /\ mime = "audio/mpeg"

\* st_size of a file
SizeOf(node) == IF node.id = 1 THEN 1024 ELSE 4096

When(has, filename_regex, mime_in, mime_startswith, path_regex, lt, gt) ==
    [has |-> has, filename_regex |-> filename_regex, mime_in |-> mime_in,
     mime_startswith |-> mime_startswith, path_regex |-> path_regex,
     size_lt_bytes |-> lt, size_gt_bytes |-> gt]

Rule(name, priority, active, when, label, tags, move_to) ==
    [name |-> name, priority |-> priority, active |-> active, when |-> when,
     then |-> [label |-> label, tags_add |-> tags, move_to |-> move_to]]

WhenInvoice == When({"filename_regex", "mime_in"}, Words({"invoice"}),
                    {"application/pdf"}, "", Words({}), 0, 0)
WhenPdf == When({"mime_in"}, Words({}), {"application/pdf"}, "", Words({}), 0, 0)
WhenAll == When({}, Words({}), {}, "", Words({}), 0, 0)
WhenBad == When({"filename_regex"}, BadPattern, {}, "", Words({}), 0, 0)
WhenSmallImage == When({"mime_startswith", "size_gt_bytes", "path_regex"}, Words({}), {},
                       "image/", Words({"downloads"}), 0, 2048)

\* the rules users store, by priority and activity
RuleUniverse ==
    {Rule("PDF Invoices", 10, TRUE, WhenInvoice, "finance", {"invoice", "pdf"}, TplDir),
     Rule("PDF Invoices", 30, TRUE, WhenInvoice, "finance", {"invoice", "pdf"}, TplDir),
     Rule("PDF Documents", 10, TRUE, WhenPdf, "documents", {"pdf"}, TplFull),
     Rule("PDF Documents", 30, TRUE, WhenPdf, "documents", {"pdf"}, TplFull),
     Rule("PDF Documents", 5, FALSE, WhenPdf, "documents", {"pdf"}, TplFull),
     Rule("Everything", NoPriority, TRUE, WhenAll, "other", {}, TplNone),
     Rule("Everything", 20, TRUE, WhenAll, "other", {}, TplNone),
     Rule("Images", 20, TRUE, WhenSmallImage, "media", {"image"}, TplFull),
     Rule("Small Files", 20, TRUE,
          When({"size_lt_bytes"}, Words({}), {}, "", Words({}), 4096, 0),
          "small", {}, TplNone),
     Rule("Large Files", 20, TRUE,
          When({"size_gt_bytes"}, Words({}), {}, "", Words({}), 0, 1024),
          "large", {}, TplNone),
     Rule("Broken", 20, TRUE, WhenBad, "broken", {}, TplNone),
     Rule(NoName, 20, TRUE, WhenPdf, "nameless", {"pdf"}, TplNone)}

\* rule.get('priority', 100)
Priority(rule) ==
    IF rule.priority = NoPriority THEN DefaultPriority ELSE rule.priority

\* sorted(rules, key=priority): a stable sort
RECURSIVE InsertByPriority(_, _)
InsertByPriority(sorted, rule) ==
    IF sorted = <<>> THEN <<rule>>
    ELSE IF Priority(sorted[Len(sorted)]) <= Priority(rule)
    THEN Append(sorted, rule)
    ELSE Append(InsertByPriority(SubSeq(sorted, 1, Len(sorted) - 1), rule),
                sorted[Len(sorted)])

RECURSIVE SortedByPriority(_)
SortedByPriority(rs) ==
    IF rs = <<>> THEN <<>>
    ELSE InsertByPriority(SortedByPriority(SubSeq(rs, 1, Len(rs) - 1)), rs[Len(rs)])

\* re.search(pattern, text, re.IGNORECASE): "raise", "yes" or "no"
Search(pattern, words) ==
    IF pattern.bad THEN "raise"
    ELSE IF pattern.words = {} \/ pattern.words \cap words # {} THEN "yes" ELSE "no"

\* _rule_matches with size bounds that include the bound itself
MatchesLoosely(file_path, mime_type, size, rule) ==
    LET c == rule.when
        fn == Search(c.filename_regex, NameWords(Name(file_path)))
        pr == Search(c.path_regex, PathWords(file_path))
    IN  IF "filename_regex" \in c.has /\ fn # "yes" THEN fn
        ELSE IF "mime_in" \in c.has /\ mime_type \notin c.mime_in THEN "no"
        ELSE IF "mime_startswith" \in c.has
                /\ ~MimeStartsWith(mime_type, c.mime_startswith) THEN "no"
        ELSE IF "path_regex" \in c.has /\ pr # "yes" THEN pr
        ELSE IF "size_lt_bytes" \in c.has /\ size > c.size_lt_bytes THEN "no"
        ELSE IF "size_gt_bytes" \in c.has /\ size < c.size_gt_bytes THEN "no"
        ELSE "yes"

\* _rule_matches: the conditions present in rule.when, in the order the code
\* tests them; "raise" when a regular expression does not compile
_rule_matches(file_path, mime_type, size, rule) ==
    LET c == rule.when
        fn == Search(c.filename_regex, NameWords(Name(file_path)))
        pr == Search(c.path_regex, PathWords(file_path))
    IN  IF "filename_regex" \in c.has /\ fn # "yes" THEN fn
        ELSE IF "mime_in" \in c.has /\ mime_type \notin c.mime_in THEN "no"
        ELSE IF "mime_startswith" \in c.has
                /\ ~MimeStartsWith(mime_type, c.mime_startswith) THEN "no"
        ELSE IF "path_regex" \in c.has /\ pr # "yes" THEN pr
        ELSE IF "size_lt_bytes" \in c.has /\ size >= c.size_lt_bytes THEN "no"
        ELSE IF "size_gt_bytes" \in c.has /\ size <= c.size_gt_bytes THEN "no"
        ELSE "yes"

\* _apply_rule_actions
_apply_rule_actions(rule) ==
    [label |-> rule.then.label, tags |-> rule.then.tags_add,
     rule_matched |-> rule.name, move_to |-> rule.then.move_to]

NoMatch == [label |-> "", tags |-> {}, rule_matched |-> NoRule, move_to |-> TplNone]
Raised == [label |-> "", tags |-> {}, rule_matched |-> "<raised>", move_to |-> TplNone]

\* the rule loop over a list: inactive rules are skipped, the first rule
\* that matches is applied; rule['name'] of a matching rule without a name
\* and a regular expression that does not compile raise
RECURSIVE ApplyUnsorted(_, _, _, _, _)
ApplyUnsorted(file_path, mime_type, size, rs, i) ==
    IF i > Len(rs) THEN NoMatch
    ELSE IF ~rs[i].active
    THEN ApplyUnsorted(file_path, mime_type, size, rs, i + 1)
    ELSE LET m == _rule_matches(file_path, mime_type, size, rs[i])
         IN  IF m = "raise" THEN Raised
             ELSE IF m = "yes"
             THEN IF rs[i].name = NoName THEN Raised
                  ELSE _apply_rule_actions(rs[i])
             ELSE ApplyUnsorted(file_path, mime_type, size, rs, i + 1)

\* the rule loop without the sort
ApplyInStoredOrder(file_path, mime_type, size, rs) ==
    ApplyUnsorted(file_path, mime_type, size, rs, 1)

\* _apply_rules: the first active rule, in priority order, that matches
_apply_rules(file_path, mime_type, size, rs) ==
    ApplyUnsorted(file_path, mime_type, size, SortedByPriority(rs), 1)

\* _fallback_classification
FinancePatterns == {"invoice", "bill", "statement", "receipt", "transaction",
                    "bank", "credit", "debit", "payment", "expense"}
\* _fallback_classification with the MIME checks ahead of the finance words
FallbackMediaFirst(file_path, mime_type) ==
    LET extension == Name(file_path).ext
    IN  IF MimeStartsWith(mime_type, "image/")
        THEN [label |-> "media", tags |-> {"image", "auto-classified"}]
        ELSE IF MimeStartsWith(mime_type, "video/")
        THEN [label |-> "media", tags |-> {"video", "auto-classified"}]
        ELSE IF MimeStartsWith(mime_type, "audio/")
        THEN [label |-> "media", tags |-> {"audio", "auto-classified"}]
        ELSE IF NameWords(Name(file_path)) \cap FinancePatterns # {}
        THEN [label |-> "finance", tags |-> {"auto-classified"}]
        ELSE IF extension \in {".pdf", ".doc", ".docx", ".txt", ".rtf"}
        THEN [label |-> "documents", tags |-> {"document", "auto-classified"}]
        ELSE IF extension \in {".py", ".js", ".html", ".css", ".java", ".cpp", ".c",
                               ".h", ".php", ".rb", ".go", ".rs", ".swift", ".kt"}
        THEN [label |-> "code", tags |-> {"source-code", "auto-classified"}]
        ELSE IF extension \in {".zip", ".rar", ".tar", ".gz", ".7z"}
        THEN [label |-> "archives", tags |-> {"archive", "auto-classified"}]
        ELSE [label |-> "other", tags |-> {"unclassified"}]

_fallback_classification(file_path, mime_type) ==
    LET extension == Name(file_path).ext
    IN  IF NameWords(Name(file_path)) \cap FinancePatterns # {}
        THEN [label |-> "finance", tags |-> {"auto-classified"}]
        ELSE IF MimeStartsWith(mime_type, "image/")
        THEN [label |-> "media", tags |-> {"image", "auto-classified"}]
        ELSE IF MimeStartsWith(mime_type, "video/")
        THEN [label |-> "media", tags |-> {"video", "auto-classified"}]
        ELSE IF MimeStartsWith(mime_type, "audio/")
        THEN [label |-> "media", tags |-> {"audio", "auto-classified"}]
        ELSE IF extension \in {".pdf", ".doc", ".docx", ".txt", ".rtf"}
        THEN [label |-> "documents", tags |-> {"document", "auto-classified"}]
        ELSE IF extension \in {".py", ".js", ".html", ".css", ".java", ".cpp", ".c",
                               ".h", ".php", ".rb", ".go", ".rs", ".swift", ".kt"}
        THEN [label |-> "code", tags |-> {"source-code", "auto-classified"}]
        ELSE IF extension \in {".zip", ".rar", ".tar", ".gz", ".7z"}
        THEN [label |-> "archives", tags |-> {"archive", "auto-classified"}]
        ELSE [label |-> "other", tags |-> {"unclassified"}]

\* classify_file with its try block only: an exception of stat or of a
\* rule leaves the call
ClassifyUncaught(f, file_path, rs) ==
    LET mime_type == MimeOf(Name(file_path))
        exception == [label |-> "", tags |-> {}, mime_type |-> mime_type,
                      confidence |-> 0, rule_matched |-> NoRule,
                      move_to |-> TplNone, raised |-> TRUE]
        matched_rule == _apply_rules(file_path, mime_type,
                                     SizeOf(NodeAt(f, file_path)), rs)
        fallback == _fallback_classification(file_path, mime_type)
    IN  IF ~Exists(f, file_path) THEN exception
        ELSE IF matched_rule = Raised THEN exception
        ELSE IF matched_rule # NoMatch
        THEN [label |-> matched_rule.label, tags |-> matched_rule.tags,
              mime_type |-> mime_type, confidence |-> 9,
              rule_matched |-> matched_rule.rule_matched,
              move_to |-> matched_rule.move_to, raised |-> FALSE]
        ELSE [label |-> fallback.label, tags |-> fallback.tags,
              mime_type |-> mime_type, confidence |-> 5,
              rule_matched |-> NoRule, move_to |-> TplNone, raised |-> FALSE]

\* classify_file; confidence in tenths; raised tells whether an exception
\* leaves the call: the except branch turns every exception of the try
\* block into the failure classification
classify_file(f, file_path, rs) ==
    LET mime_type == MimeOf(Name(file_path))
        failure == [label |-> "other", tags |-> {}, mime_type |-> mime_type,
                    confidence |-> 0, rule_matched |-> NoRule,
                    move_to |-> TplNone, raised |-> FALSE]
        matched_rule == _apply_rules(file_path, mime_type,
                                     SizeOf(NodeAt(f, file_path)), rs)
        fallback == _fallback_classification(file_path, mime_type)
    IN  IF ~Exists(f, file_path) THEN failure
        ELSE IF matched_rule = Raised THEN failure
        ELSE IF matched_rule # NoMatch
        THEN [label |-> matched_rule.label, tags |-> matched_rule.tags,
              mime_type |-> mime_type, confidence |-> 9,
              rule_matched |-> matched_rule.rule_matched,
              move_to |-> matched_rule.move_to, raised |-> FALSE]
        ELSE [label |-> fallback.label, tags |-> fallback.tags,
              mime_type |-> mime_type, confidence |-> 5,
              rule_matched |-> NoRule, move_to |-> TplNone, raised |-> FALSE]

----------------------------------------------------------------------------
(* The rule store and the classifier on their own.                         *)

SrcBankPhoto == Join(Downloads, N("bank_photo", ".png"))
SrcNotes == Join(Downloads, N("notes", ".txt"))
SrcGone == Join(Downloads, N("gone", ".pdf"))
ClsPaths == {SrcInvoice, SrcPhoto, SrcBankPhoto, SrcNotes, SrcGone}

ClsFs == Put(Put(BaseFs, SrcBankPhoto, FileNode(5)), SrcNotes, FileNode(6))

ClsInit ==
    /\ fs = ClsFs
    /\ rules = <<>>
    /\ call = NoCall
    /\ activity_log = <<>>
    /\ clock = 2024
    /\ cls = ClassificationWith(TplNone)
    /\ nops = 0
    /\ ncreated = 0
    /\ WatcherConstructed

\* get_rules: the list in rules.json; the empty list when the file cannot be
\* parsed, as while _save_rules has truncated it and not yet written it out.
\* stored is what the file held before the save that is under way.
get_rules(stored, save) == IF save = NoSave THEN stored ELSE <<>>

\* add_rule: get_rules, append, save_rules
add_rule(rule) ==
    /\ Len(rules) < MaxRules
    /\ rules' = Append(rules, rule)
    /\ call' = [op |-> "add_rule", ret |-> TRUE]
    /\ UNCHANGED <<orgVarsButCall, watchVars>>

\* delete_rule(index): a position outside the list changes nothing and
\* returns False (positions count from 1 here)
delete_rule(index) ==
    /\ rules' = IF index \in 1..Len(rules)
                THEN SubSeq(rules, 1, index - 1) \o SubSeq(rules, index + 1, Len(rules))
                ELSE rules
    /\ call' = [op |-> "delete_rule", ret |-> index \in 1..Len(rules)]
    /\ UNCHANGED <<orgVarsButCall, watchVars>>

Classify(file_path) ==
    /\ call' = [op |-> "classify_file", file_path |-> file_path,
                rules |-> get_rules(rules, saving),
                ret |-> classify_file(fs, file_path, get_rules(rules, saving))]
    /\ UNCHANGED <<rules, orgVarsButCall, watchVars>>

ClsNext ==
    \/ \E r \in RuleUniverse : add_rule(r)
    \/ \E i \in 1..MaxRules : delete_rule(i)
    \/ \E p \in ClsPaths : Classify(p)

ClsSpec == ClsInit /\ [][ClsNext]_vars

----------------------------------------------------------------------------
(* Rule updates next to classifications: the thread that edits the rules   *)
(* is inside _save_rules, between open(rules_file, 'w'), which truncates   *)
(* the file, and the end of the with block, which writes the list out,     *)
(* while another thread classifies a file.                                 *)

\* add_rule up to the open() of _save_rules
AddRuleOpen(rule) ==
    /\ saving = NoSave
    /\ Len(rules) < MaxRules
    /\ saving' = [pc |-> "opened", op |-> "add_rule",
                  rules |-> Append(get_rules(rules, saving), rule)]
    /\ UNCHANGED <<rules, call, orgVarsButCall, _running, observer, watches, ctl,
                   obs, _debounce_events, timers, inventory>>

\* delete_rule up to the open() of _save_rules; nothing is saved for a
\* position outside the list
DeleteRuleOpen(index) ==
    /\ saving = NoSave
    /\ index \in 1..Len(rules)
    /\ saving' = [pc |-> "opened", op |-> "delete_rule",
                  rules |-> SubSeq(rules, 1, index - 1)
                                \o SubSeq(rules, index + 1, Len(rules))]
    /\ UNCHANGED <<rules, call, orgVarsButCall, _running, observer, watches, ctl,
                   obs, _debounce_events, timers, inventory>>

\* _save_rules: json.dump and the close of the file; the update returns True
SaveWritten ==
    /\ saving # NoSave
    /\ rules' = saving.rules
    /\ saving' = NoSave
    /\ call' = [op |-> saving.op, ret |-> TRUE]
    /\ UNCHANGED <<orgVarsButCall, _running, observer, watches, ctl,
                   obs, _debounce_events, timers, inventory>>

RuleNext ==
    \/ \E r \in RuleUniverse : AddRuleOpen(r)
    \/ \E i \in 1..MaxRules : DeleteRuleOpen(i)
    \/ SaveWritten
    \/ \E p \in ClsPaths : Classify(p)

RuleSpec == ClsInit /\ [][RuleNext]_vars

----------------------------------------------------------------------------
(* The rule document: rules.json as json.dump writes it and json.load      *)
(* reads it.  A JSON object is the sequence of its <<key, value>> pairs; a *)
(* key the rule does not have is not written, and no key is added on read. *)

HasKey(object, key) == \E i \in 1..Len(object) : object[i][1] = key
Get(object, key, absent) ==
    IF HasKey(object, key)
    THEN object[CHOOSE i \in 1..Len(object) : object[i][1] = key][2]
    ELSE absent

JsonOfWhen(when) ==
    LET Pair(key, value) == IF key \in when.has THEN <<(<<key, value>>)>> ELSE <<>>
    IN  Pair("filename_regex", when.filename_regex)
            \o Pair("mime_in", when.mime_in)
            \o Pair("mime_startswith", when.mime_startswith)
            \o Pair("path_regex", when.path_regex)
            \o Pair("size_lt_bytes", when.size_lt_bytes)
            \o Pair("size_gt_bytes", when.size_gt_bytes)

JsonOfRule(rule) ==
    (IF rule.name = NoName THEN <<>> ELSE <<(<<"name", rule.name>>)>>)
        \o (IF rule.priority = NoPriority THEN <<>>
            ELSE <<(<<"priority", rule.priority>>)>>)
        \o <<(<<"active", rule.active>>)>>
        \o <<(<<"when", JsonOfWhen(rule.when)>>)>>
        \o <<(<<"then", <<(<<"label", rule.then.label>>),
                          (<<"tags_add", rule.then.tags_add>>)>>
                            \o (IF rule.then.move_to = TplNone THEN <<>>
                                ELSE <<(<<"move_to", rule.then.move_to>>)>>)>>)>>

WhenOfJson(object) ==
    When({object[i][1] : i \in 1..Len(object)},
         Get(object, "filename_regex", Words({})), Get(object, "mime_in", {}),
         Get(object, "mime_startswith", ""), Get(object, "path_regex", Words({})),
         Get(object, "size_lt_bytes", 0), Get(object, "size_gt_bytes", 0))

RuleOfJson(object) ==
    Rule(Get(object, "name", NoName), Get(object, "priority", NoPriority),
         Get(object, "active", TRUE), WhenOfJson(Get(object, "when", <<>>)),
         Get(Get(object, "then", <<>>), "label", "other"),
         Get(Get(object, "then", <<>>), "tags_add", {}),
         Get(Get(object, "then", <<>>), "move_to", TplNone))

\* json.dump(rules, f, indent=2) / json.dumps(rules, indent=2)
json_dump(rs) == [i \in 1..Len(rs) |-> JsonOfRule(rs[i])]

\* json.load that fills in the defaults
JsonLoadWithDefaults(document) ==
    LET RuleWithDefaults(object) ==
            Rule(Get(object, "name", "Unknown"),
                 Get(object, "priority", DefaultPriority),
                 Get(object, "active", TRUE), WhenOfJson(Get(object, "when", <<>>)),
                 Get(Get(object, "then", <<>>), "label", "other"),
                 Get(Get(object, "then", <<>>), "tags_add", {}),
                 Get(Get(object, "then", <<>>), "move_to", TplNone))
    IN  [i \in 1..Len(document) |-> RuleWithDefaults(document[i])]

\* json.load(f)
json_load(document) == [i \in 1..Len(document) |-> RuleOfJson(document[i])]

\* the rules that are saved and imported here
StoreRules ==
    {Rule("PDF Invoices", 10, TRUE, WhenInvoice, "finance", {"invoice", "pdf"}, TplDir),
     Rule("PDF Documents", 5, FALSE, WhenPdf, "documents", {"pdf"}, TplFull),
     Rule("Everything", NoPriority, TRUE, WhenAll, "other", {}, TplNone),
     Rule("Images", 20, TRUE, WhenSmallImage, "media", {"image"}, TplFull),
     Rule(NoName, 20, TRUE, WhenPdf, "nameless", {"pdf"}, TplNone)}

RECURSIVE RuleLists(_)
RuleLists(n) ==
    IF n = 0 THEN {<<>>}
    ELSE RuleLists(n - 1)
             \cup {Append(rs, r) : rs \in {l \in RuleLists(n - 1) : Len(l) = n - 1},
                                   r \in StoreRules}

\* save_rules(rules): the list is written to rules.json
save_rules(rs) ==
    /\ rules' = json_load(json_dump(rs))
    /\ call' = [op |-> "save_rules", rules |-> rs]
    /\ UNCHANGED <<orgVarsButCall, watchVars>>

\* Export Rules: json.dumps of the list get_rules returned
ExportRules ==
    /\ call' = [op |-> "export", rules |-> get_rules(rules, saving),
                ret |-> json_dump(get_rules(rules, saving))]
    /\ UNCHANGED <<rules, orgVarsButCall, watchVars>>

\* Import Rules: json.load of the uploaded document, then save_rules; the
\* upload is the document of the last export
ImportRules ==
    /\ call.op = "export"
    /\ rules' = json_load(json_dump(json_load(call.ret)))
    /\ call' = [op |-> "import", rules |-> call.rules]
    /\ UNCHANGED <<orgVarsButCall, watchVars>>

StoreNext ==
    \/ \E rs \in RuleLists(MaxRules) : save_rules(rs)
    \/ ExportRules
    \/ ImportRules

StoreSpec == ClsInit /\ [][StoreNext]_vars

----------------------------------------------------------------------------
(* The fallback classification on its own: _fallback_classification for    *)
(* any file name and MIME type, and classify_file with an empty rule list. *)

FallbackNames ==
    {InvoiceName, PhotoName, N("bank_photo", ".png"), N("statement", ".zip"),
     N("payment", ".py"), N("clip", ".mp4"), N("song", ".mp3"), N("notes", ".txt"),
     N("script", ".py"), N("bundle", ".zip"), N("data", ".bin"), N("README", "")}
FallbackPaths == {Join(Downloads, n) : n \in FallbackNames}

\* the MIME types classify_file can pass, "" for none
FallbackMimes ==
    {"", "application/pdf", "image/png", "text/plain", "video/mp4", "audio/mpeg",
     "application/zip", "text/x-python", "application/octet-stream"}

FallbackFs ==
    [files |-> [p \in {HomeDir, Downloads} \cup FallbackPaths |->
                   IF p \in FallbackPaths THEN FileNode(4) ELSE DirNode],
     bulk |-> NoBulk]

FallbackInit ==
    /\ fs = FallbackFs
    /\ rules = <<>>
    /\ call = NoCall
    /\ activity_log = <<>>
    /\ clock = 2024
    /\ cls = ClassificationWith(TplNone)
    /\ nops = 0
    /\ ncreated = 0
    /\ WatcherConstructed

Fallback(file_path, mime_type) ==
    /\ call' = [op |-> "_fallback_classification", file_path |-> file_path,
                mime_type |-> mime_type,
                ret |-> _fallback_classification(file_path, mime_type)]
    /\ UNCHANGED <<rules, orgVarsButCall, watchVars>>

FallbackNext ==
    \/ \E p \in FallbackPaths, m \in FallbackMimes : Fallback(p, m)
    \/ \E p \in FallbackPaths : Classify(p)

FallbackSpec == FallbackInit /\ [][FallbackNext]_vars

----------------------------------------------------------------------------
(* The inventory (database.py).                                            *)

\* add_file with the defaults of its signature in place of what it is given
AddFileDefaults(f, log, inv, file_path, label, tags, mime_type, db) ==
    IF ~Exists(f, file_path) \/ db = "fail"
    THEN [inventory |-> inv, raised |-> TRUE,
          log |-> log_activity(log, "file_add_failed", file_path, "error", db).log]
    ELSE [inventory |-> {r \in inv : r.id # file_path}
                            \cup {[id |-> file_path, abs_path |-> file_path,
                                   label |-> "other", tags |-> {},
                                   mime_type |-> ""]},
          raised |-> FALSE,
          log |-> log_activity(log, "file_added", file_path, "success", db).log]

\* add_file: the file must exist; INSERT OR REPLACE of the row of that path,
\* then a file_added row in the activity log; any error (the file is gone,
\* the database fails) is logged and raised
add_file(f, log, inv, file_path, label, tags, mime_type, db) ==
    IF ~Exists(f, file_path) \/ db = "fail"
    THEN [inventory |-> inv, raised |-> TRUE,
          log |-> log_activity(log, "file_add_failed", file_path, "error", db).log]
    ELSE [inventory |-> {r \in inv : r.id # file_path}
                            \cup {[id |-> file_path, abs_path |-> file_path,
                                   label |-> label, tags |-> tags,
                                   mime_type |-> mime_type]},
          raised |-> FALSE,
          log |-> log_activity(log, "file_added", file_path, "success", db).log]

\* update_file_location: UPDATE ... WHERE abs_path = old_path, then a
\* file_moved row in the activity log; a database error is logged and raised
update_file_location(log, inv, old_path, new_path, db) ==
    IF db = "fail"
    THEN [inventory |-> inv, raised |-> TRUE,
          log |-> log_activity(log, "file_move_failed", old_path, "error", db).log]
    ELSE [inventory |-> {IF r.abs_path = old_path
                         THEN [r EXCEPT !.abs_path = new_path]
                         ELSE r : r \in inv},
          raised |-> FALSE,
          log |-> log_activity(log, "file_moved", old_path, "success", db).log]

----------------------------------------------------------------------------
(* The watcher (file_watcher.py): the thread that calls start() and        *)
(* stop(), the observer thread that calls on_created and on_moved, and one *)
(* thread per threading.Timer that calls _process_event.                   *)

SrcPart == Join(Downloads, N("video", ".part"))
EventPaths == {SrcInvoice, SrcPart}
SrcDraft == Join(Downloads, N("draft", ".pdf"))
OldPaths == {SrcDraft, Join(Downloads, N("scan", ".pdf"))}

\* config_manager.get_watch_paths
WatchPaths == {Downloads}

WatchFs == [files |-> [p \in {HomeDir, Downloads} |-> DirNode], bulk |-> NoBulk]
WatchRules ==
    <<Rule("PDF Documents", 10, TRUE, WhenPdf, "documents", {"pdf"}, TplFull)>>

\* a key made of the path alone
KeyByPath(event_type, file_path) == <<"", file_path>>

\* event_key = f"{event_type}:{file_path}": the event types hold no colon,
\* so two keys are equal exactly when type and path both are
EventKey(event_type, file_path) == <<event_type, file_path>>

KeyIn(map, key) == \E e \in map : e.key = key
TimerOf(map, key) == (CHOOSE e \in map : e.key = key).timer
DelKey(map, key) == {e \in map : e.key # key}
SetKey(map, key, t) == DelKey(map, key) \cup {[key |-> key, timer |-> t]}

\* threading.Timer(delay, _process_event, args=(event_type, file_path, old_path));
\* superseded notes that a later event for the key came while it was waiting
NewTimer(event_type, file_path, old_path) ==
    [event_type |-> event_type, file_path |-> file_path, old_path |-> old_path,
     state |-> "waiting", superseded |-> FALSE, dispatched |-> <<>>, calls |-> {},
     failed |-> {}, raised |-> FALSE]

Dispatched(t) == timers[t].state \in {"fired", "done"}

\* Timer.cancel(): stops a timer that has not yet called its function
cancel(ts, t) ==
    IF ts[t].state = "waiting" THEN [ts EXCEPT ![t].state = "cancelled"] ELSE ts

\* the latest timer created for a key, 0 if there is none
LastTimerOf(ts, key) ==
    LET S == {t \in 1..Len(ts) : EventKey(ts[t].event_type, ts[t].file_path) = key}
    IN  IF S = {} THEN 0 ELSE CHOOSE t \in S : \A u \in S : u <= t

\* _should_ignore_file
IgnorePatterns == {".tmp", ".temp", ".lock", ".crdownload", ".part"}
_should_ignore_file(file_path) ==
    LET name == Name(file_path)
    IN  \/ name.ext \in IgnorePatterns
        \/ <<name.stem, name.ext>> \in {<<"thumbs", ".db">>, <<"desktop", ".ini">>}
        \/ name.stem \in {".ds_store", ".hidden"}

\* start() without its check of the flag
StartUnguarded(running, observer_state) ==
    IF observer_state = "new" THEN "starting" ELSE "raised"

\* FileWatcher.start, up to and including observer.start(): what the call
\* does given the flag and the state of the observer thread
start_outcome(running, observer_state) ==
    IF running THEN "already_running"
    ELSE IF observer_state = "new" THEN "starting"
    ELSE "raised"

\* FileWatcher.stop, up to observer.stop()
stop_outcome(running) == IF running THEN "stopping" ELSE "not_running"

\* is_running
is_running == _running /\ observer = "alive"

WatchInit ==
    /\ fs = WatchFs
    /\ rules = WatchRules
    /\ call = NoCall
    /\ activity_log = <<>>
    /\ clock = 2024
    /\ cls = ClassificationWith(TplNone)
    /\ nops = 0
    /\ ncreated = 0
    /\ WatcherConstructed

pipeVars == <<fs, activity_log, inventory>>
constVars == <<clock, cls, nops, ncreated, rules, saving>>

\* start(): the flag check, the scheduling of the watch paths that exist
\* and observer.start(), which raises on a thread that was started before
StartCall ==
    /\ ctl = "idle"
    /\ LET out == start_outcome(_running, observer)
           scheduled == {d \in WatchPaths : Exists(fs, d)}
       IN  /\ call' = [op |-> "start", outcome |-> out]
           /\ watches' = IF out = "already_running" THEN watches
                         ELSE watches \cup scheduled
           /\ observer' = IF out = "starting" THEN "alive" ELSE observer
           /\ ctl' = IF out = "starting" THEN "start_flag" ELSE "idle"
    /\ UNCHANGED <<_running, obs, _debounce_events, timers, pipeVars, constVars>>

\* start(): self._running = True
StartFinish ==
    /\ ctl = "start_flag"
    /\ _running' = TRUE
    /\ ctl' = "idle"
    /\ call' = [op |-> "start", outcome |-> "started"]
    /\ UNCHANGED <<observer, watches, obs, _debounce_events, timers, pipeVars, constVars>>

\* stop(): the flag check and observer.stop(), which unschedules every watch
StopCall ==
    /\ ctl = "idle"
    /\ LET out == stop_outcome(_running)
       IN  /\ call' = [op |-> "stop", outcome |-> out]
           /\ watches' = IF out = "stopping" THEN {} ELSE watches
           /\ observer' = IF out = "stopping" /\ observer = "alive"
                          THEN "stopping" ELSE observer
           /\ ctl' = IF out = "stopping" THEN "stop_join" ELSE "idle"
    /\ UNCHANGED <<_running, obs, _debounce_events, timers, pipeVars, constVars>>

\* the observer thread ends once the handler call it is inside has returned
ObserverExit ==
    /\ observer = "stopping"
    /\ obs.pc = "idle"
    /\ observer' = "dead"
    /\ UNCHANGED <<_running, watches, ctl, obs, _debounce_events, timers, call,
                   pipeVars, constVars>>

\* stop(): observer.join() has returned; self._running = False
StopFinish ==
    /\ ctl = "stop_join"
    /\ observer = "dead"
    /\ _running' = FALSE
    /\ ctl' = "idle"
    /\ call' = [op |-> "stop", outcome |-> "stopped"]
    /\ UNCHANGED <<observer, watches, obs, _debounce_events, timers, pipeVars, constVars>>

\* the observer thread hands an event to the handler: on_created / on_moved
\* call _debounce_event, which builds the key and looks it up in the map
Deliver(event_type, file_path, old_path) ==
    /\ observer = "alive"
    /\ Parent(file_path) \in watches
    /\ obs.pc = "idle"
    /\ Len(timers) < MaxTimers
    /\ fs' = IF Exists(fs, file_path) THEN fs ELSE Put(fs, file_path, FileNode(4))
    /\ obs' = [pc |-> IF KeyIn(_debounce_events, EventKey(event_type, file_path))
                      THEN "cancel" ELSE "insert",
               event_type |-> event_type, file_path |-> file_path,
               old_path |-> old_path, cancelled |-> 0]
    /\ UNCHANGED <<_running, observer, watches, ctl, _debounce_events, timers, call,
                   activity_log, inventory, constVars>>

on_created(src_path) == Deliver("created", src_path, None)
on_moved(src_path, dest_path) == Deliver("moved", dest_path, src_path)

\* _debounce_event: self._debounce_events[event_key].cancel(); a KeyError,
\* when the entry has gone since the lookup, ends the observer thread
DebounceCancel ==
    /\ obs.pc = "cancel"
    /\ LET key == EventKey(obs.event_type, obs.file_path)
       IN  IF KeyIn(_debounce_events, key)
           THEN LET t == TimerOf(_debounce_events, key)
                IN  /\ timers' = cancel(timers, t)
                    /\ obs' = [obs EXCEPT !.pc = "insert",
                                 !.cancelled = IF timers[t].state = "waiting"
                                               THEN t ELSE 0]
                    /\ UNCHANGED observer
           ELSE /\ observer' = "dead"
                /\ obs' = ObsIdle
                /\ UNCHANGED timers
    /\ UNCHANGED <<_running, watches, ctl, _debounce_events, call, pipeVars, constVars>>

\* _debounce_event: the new timer is created, stored under the key, started
DebounceStart ==
    /\ obs.pc = "insert"
    /\ LET key == EventKey(obs.event_type, obs.file_path)
           prev == LastTimerOf(timers, key)
           marked == IF prev # 0 /\ (obs.cancelled = prev \/ timers[prev].state = "waiting")
                     THEN [timers EXCEPT ![prev].superseded = TRUE]
                     ELSE timers
       IN  /\ timers' = Append(marked, NewTimer(obs.event_type, obs.file_path, obs.old_path))
           /\ _debounce_events' = SetKey(_debounce_events, key, Len(timers) + 1)
    /\ obs' = ObsIdle
    /\ UNCHANGED <<_running, observer, watches, ctl, call, pipeVars, constVars>>

\* the delay of a timer that was not cancelled is over: its thread calls
\* _process_event with the arguments the timer was created with
TimerFire(t) ==
    /\ t \in 1..Len(timers)
    /\ timers[t].state = "waiting"
    /\ timers' = [timers EXCEPT ![t].state = "fired",
                    ![t].dispatched = Append(@, <<timers[t].event_type,
                                                  timers[t].file_path,
                                                  timers[t].old_path>>)]
    /\ UNCHANGED <<_running, observer, watches, ctl, obs, _debounce_events, call,
                   pipeVars, constVars>>

\* _handle_file_created without its try/except: the exception of add_file
\* leaves the handler
CreatedUncaught(f, log, inv, file_path, rs, now, io, db) ==
    LET classification == classify_file(f, file_path, rs)
        organized == organize_file(f, log, file_path, classification, now, io, db)
        added == add_file(organized.fs, organized.log, inv, organized.ret,
                          classification.label, classification.tags,
                          classification.mime_type, db)
    IN  [fs |-> organized.fs, log |-> added.log, inventory |-> added.inventory,
         calls |-> {"classify_file", "organize_file", "add_file"},
         failed |-> (IF organized.error THEN {"organize_file"} ELSE {})
                        \cup (IF added.raised THEN {"add_file"} ELSE {}),
         raised |-> added.raised]

\* _handle_file_created: classify, organize, add to the inventory; an
\* exception of the three calls is caught and logged.  failed names the
\* calls that did not do their work.
_handle_file_created(f, log, inv, file_path, rs, now, io, db) ==
    LET classification == classify_file(f, file_path, rs)
        organized == organize_file(f, log, file_path, classification, now, io, db)
        added == add_file(organized.fs, organized.log, inv, organized.ret,
                          classification.label, classification.tags,
                          classification.mime_type, db)
    IN  [fs |-> organized.fs, log |-> added.log, inventory |-> added.inventory,
         calls |-> {"classify_file", "organize_file", "add_file"},
         failed |-> (IF organized.error THEN {"organize_file"} ELSE {})
                        \cup (IF added.raised THEN {"add_file"} ELSE {}),
         raised |-> FALSE]

\* a moved event handled like a created one: classified and organized
MovedReclassifies(f, log, inv, old_path, new_path, db) ==
    _handle_file_created(f, log, inv, new_path, rules, clock, "none", db)

\* _handle_file_moved: the inventory is told the new location; an exception
\* is caught and logged
_handle_file_moved(f, log, inv, old_path, new_path, db) ==
    LET updated == update_file_location(log, inv, old_path, new_path, db)
    IN  [fs |-> f, log |-> updated.log, inventory |-> updated.inventory,
         calls |-> {"update_file_location"},
         failed |-> IF updated.raised THEN {"update_file_location"} ELSE {},
         raised |-> FALSE]

\* the failures the filesystem and the database can produce under a handler
HandlerIo == {"none", "move"}

\* _process_event without the os.path.exists check of line 60
ProcessUnchecked(t, io, db) ==
    /\ t \in 1..Len(timers)
    /\ timers[t].state = "fired"
    /\ _debounce_events' =
           DelKey(_debounce_events, EventKey(timers[t].event_type, timers[t].file_path))
    /\ LET file_path == timers[t].file_path
           skipped == [fs |-> fs, log |-> activity_log, inventory |-> inventory,
                       calls |-> {}, failed |-> {}, raised |-> FALSE]
           done == IF _should_ignore_file(file_path) THEN skipped
                   ELSE IF timers[t].event_type = "created"
                   THEN _handle_file_created(fs, activity_log, inventory,
                                             file_path, rules, clock, io, db)
                   ELSE _handle_file_moved(fs, activity_log, inventory,
                                           timers[t].old_path, file_path, db)
       IN  /\ fs' = done.fs
           /\ activity_log' = done.log
           /\ inventory' = done.inventory
           /\ timers' = [timers EXCEPT ![t].state = "done", ![t].calls = done.calls,
                           ![t].failed = done.failed, ![t].raised = done.raised]
    /\ UNCHANGED <<_running, observer, watches, ctl, obs, call, constVars>>

\* _process_event: the entry of the key is deleted, whichever timer it
\* holds; then the existence check, the ignore filter and the handler
_process_event(t, io, db) ==
    /\ t \in 1..Len(timers)
    /\ timers[t].state = "fired"
    /\ _debounce_events' =
           DelKey(_debounce_events, EventKey(timers[t].event_type, timers[t].file_path))
    /\ LET file_path == timers[t].file_path
           skipped == [fs |-> fs, log |-> activity_log, inventory |-> inventory,
                       calls |-> {}, failed |-> {}, raised |-> FALSE]
       IN  \E done \in {IF ~Exists(fs, file_path) THEN skipped
                         ELSE IF _should_ignore_file(file_path) THEN skipped
                         ELSE IF timers[t].event_type = "created"
                         THEN _handle_file_created(fs, activity_log, inventory,
                                                   file_path, rules, clock, io, db)
                         ELSE _handle_file_moved(fs, activity_log, inventory,
                                                 timers[t].old_path, file_path, db)} :
           /\ fs' = done.fs
           /\ activity_log' = done.log
           /\ inventory' = done.inventory
           /\ timers' = [timers EXCEPT ![t].state = "done", ![t].calls = done.calls,
                           ![t].failed = done.failed, ![t].raised = done.raised]
    /\ UNCHANGED <<_running, observer, watches, ctl, obs, call, constVars>>

WatchNext ==
    \/ StartCall
    \/ StartFinish
    \/ StopCall
    \/ ObserverExit
    \/ StopFinish
    \/ \E p \in EventPaths : on_created(p)
    \/ \E o \in OldPaths : on_moved(o, SrcInvoice)
    \/ DebounceCancel
    \/ DebounceStart
    \/ \E t \in 1..MaxTimers : TimerFire(t)
    \/ \E t \in 1..MaxTimers : _process_event(t, "none", "ok")

WatchSpec == WatchInit /\ [][WatchNext]_vars

----------------------------------------------------------------------------
(* The event pipeline of a watcher that start() has started: the observer  *)
(* thread and the timer threads, with a disk and a database that can fail  *)
(* under the handlers.                                                     *)

PipeInit ==
    /\ fs = WatchFs
    /\ rules = WatchRules
    /\ call = [op |-> "start", outcome |-> "started"]
    /\ activity_log = <<>>
    /\ clock = 2024
    /\ cls = ClassificationWith(TplNone)
    /\ nops = 0
    /\ ncreated = 0
    /\ _running = TRUE
    /\ observer = "alive"
    /\ watches = WatchPaths
    /\ ctl = "idle"
    /\ obs = ObsIdle
    /\ _debounce_events = {}
    /\ timers = <<>>
    /\ inventory = {}
    /\ saving = NoSave

PipeNext ==
    \/ on_created(SrcInvoice)
    \/ \E o \in OldPaths : on_moved(o, SrcInvoice)
    \/ on_moved(SrcDraft, SrcPart)
    \/ DebounceCancel
    \/ DebounceStart
    \/ \E t \in 1..MaxTimers : TimerFire(t)
    \/ \E t \in 1..MaxTimers, io \in HandlerIo, db \in DbModes : _process_event(t, io, db)

PipeSpec == PipeInit /\ [][PipeNext]_vars

----------------------------------------------------------------------------
(* Properties of the organizer.                                            *)

\* an organize_file call has just been made
OrgStep == call'.op = "organize_file" /\ nops' = nops + 1
OrgSrc == call'.file_path
OrgDest == _expand_path_template(cls.move_to, call'.file_path, clock)

AllCandidatesExist(f, d) == \A k \in 1..MaxConflicts : Taken(f, d, k)
Exhausted(f, d) == Exists(f, d) /\ AllCandidatesExist(f, d)

\* the counter a name ends with (0: none)
CounterOf(p) ==
    LET c == Name(p).ctr IN IF Len(c) = 0 THEN 0 ELSE c[Len(c)]

\* r is d with the smallest counter in 1..limit whose name is free
SmallestFree(f, d, r, limit) ==
    LET k == CounterOf(r)
    IN  /\ k \in 1..limit
        /\ r = Candidate(d, k)
        /\ ~Exists(f, r)
        /\ \A j \in 1..(k - 1) : Taken(f, d, j)

\* C3 as stated: for an existing destination, conflict resolution never
\* returns the destination itself and returns the candidate with the
\* smallest free counter >= 1; a destination that does not exist is
\* returned unchanged.
C3_ResolveNeverReturnsDestination ==
    \A d \in Destinations :
        LET r == _resolve_filename_conflict(fs, d)
        IN  IF Exists(fs, d)
            THEN r # d /\ SmallestFree(fs, d, r, MaxConflicts + 1)
            ELSE r = d

\* C3 amended: for an existing destination, conflict resolution returns the
\* candidate with the smallest free counter in 1..1000, which is never the
\* destination itself; only when all 1000 candidates exist does it return the
\* destination; a destination that does not exist is returned unchanged.
C3_ResolveSmallestFree ==
    \A d \in Destinations :
        LET r == _resolve_filename_conflict(fs, d)
        IN  IF ~Exists(fs, d) THEN r = d
            ELSE IF AllCandidatesExist(fs, d) THEN r = d
            ELSE r # d /\ SmallestFree(fs, d, r, MaxConflicts)

\* C3 witness: an organize_file call found the destination and its first
\* candidate taken and moved the file to the second.
C3_Witness ==
    /\ call.op = "organize_file"
    /\ call.moved
    /\ call.final = Candidate(DstInvoice, 2)
    /\ IsFile(fs, DstInvoice)
    /\ IsFile(fs, Candidate(DstInvoice, 1))
    /\ _resolve_filename_conflict(fs, DstInvoice) = Candidate(DstInvoice, 3)

\* C4: when the destination file and all 1000 numbered candidates exist,
\* organize_file leaves the destination file as it was, the move fails, the
\* source stays and the source path is returned.
C4_ExhaustionNeverOverwrites ==
    [][(/\ OrgStep
        /\ cls.move_to # TplNone
        /\ IsFile(fs, OrgSrc)
        /\ OrgDest # OrgSrc
        /\ IsFile(fs, OrgDest)
        /\ Exhausted(fs, OrgDest))
       => (/\ IsFile(fs', OrgDest)
           /\ NodeAt(fs', OrgDest) = NodeAt(fs, OrgDest)
           /\ IsFile(fs', OrgSrc)
           /\ NodeAt(fs', OrgSrc) = NodeAt(fs, OrgSrc)
           /\ ~call'.moved
           /\ call'.ret = OrgSrc)]_vars

\* C5: whenever organize_file reports a successful move, the path it returns
\* exists afterwards and the source path does not.
C5_MovePostcondition ==
    [][(OrgStep /\ call'.moved)
       => (Exists(fs', call'.ret) /\ ~Exists(fs', OrgSrc))]_vars

\* C6 as stated: when directory creation or the move fails, organize_file
\* raises nothing, returns the original path, the file is still where it
\* was, and exactly one error entry for it is added to the activity log.
C6_FailureLogsOneEntry ==
    [][(OrgStep /\ call'.error /\ IsFile(fs, OrgSrc))
       => (/\ ~call'.raised
           /\ call'.ret = OrgSrc
           /\ IsFile(fs', OrgSrc)
           /\ NodeAt(fs', OrgSrc) = NodeAt(fs, OrgSrc)
           /\ activity_log' = Append(activity_log,
                  [action |-> "file_organize_failed", file_path |-> OrgSrc,
                   status |-> "error"]))]_vars

\* C6 amended: when directory creation or the move fails, organize_file
\* raises nothing, returns the original path, the file is still where it
\* was, and log_activity is called once for it with status error: exactly
\* one error entry is added to the activity log when the database write
\* succeeds, and none (the database error is swallowed) when it fails.
C6_FailureKeepsFileAndLogs ==
    [][(OrgStep /\ call'.error /\ IsFile(fs, OrgSrc))
       => (/\ ~call'.raised
           /\ call'.ret = OrgSrc
           /\ IsFile(fs', OrgSrc)
           /\ NodeAt(fs', OrgSrc) = NodeAt(fs, OrgSrc)
           /\ activity_log' =
                  IF call'.db = "ok"
                  THEN Append(activity_log,
                           [action |-> "file_organize_failed",
                            file_path |-> OrgSrc, status |-> "error"])
                  ELSE activity_log)]_vars

\* C6 witness: a move failed, the file is still in the watched folder and the
\* last row of the activity log is its error entry.
C6_Witness ==
    /\ call.op = "organize_file"
    /\ call.error
    /\ call.io = "move"
    /\ call.ret = call.file_path
    /\ IsFile(fs, call.file_path)
    /\ Len(activity_log) > 0
    /\ activity_log[Len(activity_log)] =
           [action |-> "file_organize_failed", file_path |-> call.file_path,
            status |-> "error"]

\* C10: with a move_to template that expands to a directory D, and no entry
\* D/BASENAME, organize_file moves the file to D/BASENAME and returns it.
C10_DestinationIsDirPlusBasename ==
    [][(/\ OrgStep
        /\ cls.move_to = TplDir
        /\ call'.io = "none"
        /\ IsFile(fs, OrgSrc)
        /\ ~Exists(fs, OrgDest) \/ IsDir(fs, OrgDest)
        /\ ~Exists(fs, Join(OrgDest, Name(OrgSrc))))
       => (/\ call'.ret = Join(OrgDest, Name(OrgSrc))
           /\ IsFile(fs', Join(OrgDest, Name(OrgSrc)))
           /\ NodeAt(fs', Join(OrgDest, Name(OrgSrc))) = NodeAt(fs, OrgSrc))]_vars


----------------------------------------------------------------------------
(* Properties of the classifier.                                           *)

Classified == call.op = "classify_file" /\ Exists(fs, call.file_path)

\* what _rule_matches decides for the classified file and the i-th stored rule
MatchOf(i) ==
    _rule_matches(call.file_path, MimeOf(Name(call.file_path)),
                  SizeOf(NodeAt(fs, call.file_path)), rules[i])
ActiveMatch(i) == rules[i].active /\ MatchOf(i) = "yes"

\* rule k is tried before rule i
SortsBefore(k, i) ==
    \/ Priority(rules[k]) < Priority(rules[i])
    \/ Priority(rules[k]) = Priority(rules[i]) /\ k < i

ReportsRule(rule) ==
    /\ call.ret.rule_matched = rule.name
    /\ call.ret.label = rule.then.label
    /\ call.ret.tags = rule.then.tags_add
    /\ call.ret.move_to = rule.then.move_to

\* C2, as stated: of any two active rules that both match the file, the one
\* with the lower priority number is the rule classify_file reports, wherever
\* the two stand in the stored list.
C2_LowerPriorityRuleWins ==
    Classified =>
        \A i, j \in 1..Len(rules) :
            (ActiveMatch(i) /\ ActiveMatch(j)
                /\ rules[i].name # NoName
                /\ Priority(rules[i]) < Priority(rules[j]))
            => ReportsRule(rules[i])

\* C2, amended: of two active rules A and B that both match the file, with
\* A.priority < B.priority, classify_file reports A (name, label, tags and
\* move_to) wherever they stand in the stored list, provided every other
\* active rule that is tried before A does not match the file.
C2_FirstInPriorityOrderWins ==
    Classified =>
        \A i, j \in 1..Len(rules) :
            (/\ ActiveMatch(i) /\ ActiveMatch(j)
             /\ rules[i].name # NoName
             /\ Priority(rules[i]) < Priority(rules[j])
             /\ \A k \in 1..Len(rules) :
                    (k # i /\ rules[k].active /\ SortsBefore(k, i))
                    => MatchOf(k) = "no")
            => ReportsRule(rules[i])

\* B is stored ahead of A, a third rule is stored too, and A is reported
C2_Witness ==
    /\ Classified
    /\ Len(rules) = 3
    /\ \E i, j \in 1..Len(rules) :
        /\ j < i
        /\ ActiveMatch(i) /\ ActiveMatch(j)
        /\ Priority(rules[i]) < Priority(rules[j])
        /\ rules[i].name # rules[j].name
        /\ rules[i].name # NoName
        /\ \A k \in 1..Len(rules) :
               (k # i /\ rules[k].active /\ SortsBefore(k, i)) => MatchOf(k) = "no"
        /\ ReportsRule(rules[i])
        /\ ~ReportsRule(rules[j])


----------------------------------------------------------------------------
(* Properties of the watcher.                                              *)

\* C1: of the events for one key that each arrive while the timer of the one
\* before is still pending, only the last is dispatched: a timer that was
\* still waiting when a later event for its key was debounced never calls
\* _process_event, and a timer that does call it calls it once, with the
\* path and old path of its own event.
C1_BurstDispatchesOnce ==
    \A t \in 1..Len(timers) :
        /\ timers[t].superseded => ~Dispatched(t)
        /\ Len(timers[t].dispatched) <= 1
        /\ Dispatched(t) =>
               timers[t].dispatched =
                   <<(<<timers[t].event_type, timers[t].file_path, timers[t].old_path>>)>>

StopDone == [op |-> "stop", outcome |-> "stopped"]

\* C7: once stop() has returned, no timer that was pending calls
\* _process_event and no classifier, organizer or inventory call is made.
C7_NoDispatchAfterStop ==
    [][call = StopDone =>
          \A t \in 1..Len(timers) :
              /\ timers[t].state = "waiting" => timers'[t].state = "waiting"
              /\ timers'[t].calls = timers[t].calls]_vars

StartOnRunning == _running /\ ctl = "idle" /\ call'.op = "start" /\ call' # call
StopOnStopped == ~_running /\ ctl = "idle" /\ call'.op = "stop" /\ call' # call

\* C8: start() on a running watcher and stop() on a watcher that is not
\* running return without an exception and leave the running flag, the
\* observer and its watches, the debounce map, the timers and everything
\* the pipeline writes as they were.
C8_IdempotentStartStop ==
    [][(StartOnRunning \/ StopOnStopped) =>
          /\ call'.outcome \in {"already_running", "not_running"}
          /\ ctl' = "idle"
          /\ UNCHANGED <<_running, observer, watches, obs, _debounce_events,
                         timers, fs, activity_log, inventory>>]_vars

\* start() has just returned on a running watcher that holds a pending timer
C8_Witness ==
    /\ call = [op |-> "start", outcome |-> "already_running"]
    /\ _running
    /\ watches # {}
    /\ \E t \in 1..Len(timers) :
           /\ timers[t].state = "waiting"
           /\ KeyIn(_debounce_events, EventKey(timers[t].event_type, timers[t].file_path))

\* C9: the observer hands an event to _debounce_event only while the running
\* flag is set.
C9_DeliveryOnlyWhileRunning ==
    [][(obs.pc = "idle" /\ obs'.pc # "idle") => _running]_vars
----------------------------------------------------------------------------
(* Further properties of the organizer.                                    *)

\* the destination of the call is held by another file of the same name
OccupiedBySameName ==
    /\ cls.move_to # TplNone
    /\ IsFile(fs, OrgSrc)
    /\ OrgDest # OrgSrc
    /\ IsFile(fs, OrgDest)
    /\ Name(OrgDest) = Name(OrgSrc)

\* C11: when the destination of a file is held by another file of the same
\* name, organize_file leaves that file where it is and as it is; if nothing
\* fails and name_1 is free the source is moved to name_1 in the same
\* directory; and the source file is not lost: it is afterwards where it was
\* or at the returned path.
C11_OccupiedDestinationKept ==
    [][(OrgStep /\ OccupiedBySameName)
       => (/\ IsFile(fs', OrgDest)
           /\ NodeAt(fs', OrgDest) = NodeAt(fs, OrgDest)
           /\ (call'.io = "none" /\ ~Exists(fs, Candidate(OrgDest, 1)))
                  => (/\ call'.ret = Candidate(OrgDest, 1)
                      /\ NodeAt(fs', Candidate(OrgDest, 1)) = NodeAt(fs, OrgSrc))
           /\ \E p \in {OrgSrc, call'.ret} :
                  /\ IsFile(fs', p)
                  /\ NodeAt(fs', p) = NodeAt(fs, OrgSrc))]_vars
\* what dry_run_organize reports for the call, on the filesystem before it
DryRun == dry_run_organize(fs, OrgSrc, cls, clock)

\* C12: for the same source, classification, filesystem and clock,
\* dry_run_organize reports a move exactly when organize_file, nothing
\* failing, moves the file, and the destination it reports is the path the
\* file is at after the move and the path organize_file returns.
C12_DryRunMatchesRealRun ==
    [][(OrgStep /\ IsFile(fs, OrgSrc) /\ call'.io = "none")
       => (/\ DryRun.would_move = call'.moved
           /\ call'.moved =>
                 (/\ call'.ret = DryRun.destination
                  /\ IsFile(fs', DryRun.destination)
                  /\ NodeAt(fs', DryRun.destination) = NodeAt(fs, OrgSrc)))]_vars
----------------------------------------------------------------------------
(* Further properties of the classifier.                                   *)

\* C13: classify_file returns a classification for every path and raises
\* nothing; for a file that cannot be stat'ed the classification has label
\* other, confidence 0.0, no tags, no rule_matched and no move_to.
C13_ClassifyNeverRaises ==
    call.op = "classify_file" =>
        /\ ~call.ret.raised
        /\ call.ret.label # ""
        /\ ~Exists(fs, call.file_path) =>
               /\ call.ret.label = "other"
               /\ call.ret.confidence = 0
               /\ call.ret.tags = {}
               /\ call.ret.rule_matched = NoRule
               /\ call.ret.move_to = TplNone

\* a file that is gone was classified while a rule without conditions,
\* which matches every file, was stored and active
C13_Witness ==
    /\ call.op = "classify_file"
    /\ ~Exists(fs, call.file_path)
    /\ \E i \in 1..Len(rules) : rules[i].active /\ rules[i].when.has = {}
    /\ call.ret.label = "other"
    /\ call.ret.confidence = 0
\* a rule without a name, or with a filename_regex or path_regex that does
\* not compile
Malformed(rule) ==
    \/ rule.name = NoName
    \/ "filename_regex" \in rule.when.has /\ rule.when.filename_regex.bad
    \/ "path_regex" \in rule.when.has /\ rule.when.path_regex.bad

WellFormed(rule) == ~Malformed(rule)

\* C14: a malformed rule is refused when the rule list is saved or loaded,
\* so the stored list never holds one, and every classification is the one
\* the well-formed rules alone give.
C14_MalformedRulesRejected ==
    /\ \A i \in 1..Len(rules) : ~Malformed(rules[i])
    /\ Classified =>
           call.ret = classify_file(fs, call.file_path, SelectSeq(rules, WellFormed))
----------------------------------------------------------------------------
(* Further properties of the watcher.                                      *)

\* C15: an event for a file the ignore filter covers never reaches the
\* debounce gate: no timer is ever created for such a path and the debounce
\* map never holds an entry for it.
C15_IgnoredNeverDebounced ==
    /\ \A t \in 1..Len(timers) : ~_should_ignore_file(timers[t].file_path)
    /\ \A e \in _debounce_events : ~_should_ignore_file(e.key[2])
    /\ obs.pc # "idle" => ~_should_ignore_file(obs.file_path)

----------------------------------------------------------------------------
(* Properties of the event pipeline.                                       *)

\* the timer thread of t runs _process_event in this step
Settles(t) == timers[t].state = "fired" /\ timers'[t].state = "done"

\* C16: when a debounced created event settles and its file no longer
\* exists, the event is dropped: classifier, organizer and inventory are
\* not called for it, nothing is moved, logged or recorded, and no
\* exception leaves the handler
C16_VanishedFileDropped ==
    [][\A t \in 1..Len(timers) :
          (Settles(t) /\ timers[t].event_type = "created"
                      /\ ~Exists(fs, timers[t].file_path))
          => /\ timers'[t].calls = {}
             /\ timers'[t].failed = {}
             /\ ~timers'[t].raised
             /\ UNCHANGED <<fs, activity_log, inventory>>]_vars

\* a created event of a file the filter lets through has settled without
\* any call: its file had been moved away by an earlier event
C16_Witness ==
    \E t \in 1..Len(timers) :
        /\ timers[t].state = "done"
        /\ timers[t].event_type = "created"
        /\ ~_should_ignore_file(timers[t].file_path)
        /\ timers[t].calls = {}
        /\ ~Exists(fs, timers[t].file_path)

\* the timer thread of t settles a moved event in this step
MoveSettles(t) == Settles(t) /\ timers[t].event_type = "moved"

\* the step is one update_file_location(old_path, new_path) call of timer t
HandsToInventory(t) ==
    \E db \in DbModes :
        LET updated == update_file_location(activity_log, inventory,
                                            timers[t].old_path, timers[t].file_path, db)
        IN  /\ timers'[t].calls = {"update_file_location"}
            /\ inventory' = updated.inventory
            /\ activity_log' = updated.log
            /\ fs' = fs

\* C17 as stated: every debounced move event that settles hands
\* (old_path, new_path) to update_file_location exactly once, and neither
\* the classifier nor the organizer is called for it
C17_EverySettledMoveUpdates ==
    [][\A t \in 1..Len(timers) : MoveSettles(t) => HandsToInventory(t)]_vars

\* C17 amended: a debounced move event that settles hands
\* (old_path, new_path) to update_file_location exactly once when the file
\* exists at new_path and is not an ignored file, and is dropped without any
\* call otherwise; the classifier and the organizer are never called for it
C17_SettledMoveUpdatesOrDrops ==
    [][\A t \in 1..Len(timers) :
          MoveSettles(t)
          => IF Exists(fs, timers[t].file_path) /\ ~_should_ignore_file(timers[t].file_path)
             THEN HandsToInventory(t)
             ELSE timers'[t].calls = {} /\ UNCHANGED <<fs, activity_log, inventory>>]_vars

\* one move event was handed to the inventory and one was dropped because
\* the file had left new_path
C17_Witness ==
    /\ \E t \in 1..Len(timers) :
          /\ timers[t].state = "done" /\ timers[t].event_type = "moved"
          /\ timers[t].calls = {"update_file_location"}
    /\ \E t \in 1..Len(timers) :
          /\ timers[t].state = "done" /\ timers[t].event_type = "moved"
          /\ ~_should_ignore_file(timers[t].file_path)
          /\ timers[t].calls = {}

\* a call made for the event of timer t fails in this step
FailedStep(t) == Settles(t) /\ timers'[t].failed # {}

\* C18: when classify, organize or the inventory call fails for one settled
\* event, no exception leaves the handler, the running state and the
\* observer thread are as before, the pending entry of the key is gone, and
\* every other timer is as before, so later events are still debounced and
\* dispatched
C18_FailureIsolated ==
    [][\A t \in 1..Len(timers) :
          FailedStep(t)
          => /\ ~timers'[t].raised
             /\ _running' = _running
             /\ is_running' = is_running
             /\ observer' = observer
             /\ obs' = obs
             /\ watches' = watches
             /\ ~KeyIn(_debounce_events',
                       EventKey(timers[t].event_type, timers[t].file_path))
             /\ \A u \in 1..Len(timers) : u # t => timers'[u] = timers[u]]_vars

\* after the event of one timer failed, a later event of the same key was
\* debounced and dispatched, and its handler did its work
C18_Witness ==
    \E t, u \in 1..Len(timers) :
        /\ t < u
        /\ timers[t].state = "done" /\ timers[t].failed # {}
        /\ timers[u].file_path = timers[t].file_path
        /\ timers[u].event_type = timers[t].event_type
        /\ timers[u].state = "done"
        /\ timers[u].calls # {} /\ timers[u].failed = {}
        /\ is_running

----------------------------------------------------------------------------
(* Properties of rule updates.                                             *)

\* C19: a classify_file call that overlaps a rule update evaluates the file
\* against the complete list of before the update or the complete list of
\* after it, never against a partial or an empty list
C19_ClassifySeesOldOrNewList ==
    [][(call'.op = "classify_file" /\ UNCHANGED <<rules, saving>>)
       => call'.rules \in {rules} \cup (IF saving = NoSave THEN {} ELSE {saving.rules})]_vars

----------------------------------------------------------------------------
(* The debounce gate.                                                      *)

\* the observer thread leaves the _debounce_event call it was inside
DebounceReturns == obs.pc # "idle" /\ obs'.pc = "idle"

\* C20: an event that _debounce_event has accepted is not lost: the call
\* ends with a timer that holds the event's payload, waiting, stored under
\* the event's key, and with the observer thread alive; that timer then
\* expires, removes the entry and dispatches once unless a later event for
\* the key replaces it
C20_AcceptedEventGetsItsTimer ==
    [][DebounceReturns
       => /\ observer' = observer
          /\ Len(timers') = Len(timers) + 1
          /\ timers'[Len(timers')] =
                 NewTimer(obs.event_type, obs.file_path, obs.old_path)
          /\ KeyIn(_debounce_events', EventKey(obs.event_type, obs.file_path))
          /\ TimerOf(_debounce_events', EventKey(obs.event_type, obs.file_path))
                 = Len(timers')]_vars

----------------------------------------------------------------------------
(* Further properties of the event pipeline.                               *)

\* the timer thread of t settles a created event in this step, and the file
\* exists and is not an ignored file
CreateSettles(t) ==
    /\ Settles(t)
    /\ timers[t].event_type = "created"
    /\ Exists(fs, timers[t].file_path)
    /\ ~_should_ignore_file(timers[t].file_path)

\* after the step the inventory holds one row for the file of timer t: at the
\* path where the file now is, which is the original path when the file was
\* not moved, with the label, tags and MIME type of its classification
RecordedOnce(t) ==
    LET file_path == timers[t].file_path
        classification == classify_file(fs, file_path, rules)
    IN  \E r \in inventory' :
            /\ IsFile(fs', r.abs_path)
            /\ Exists(fs', file_path) <=> r.abs_path = file_path
            /\ "organize_file" \in timers'[t].failed => r.abs_path = file_path
            /\ r.label = classification.label
            /\ r.tags = classification.tags
            /\ r.mime_type = classification.mime_type
            /\ \A q \in inventory' : q.abs_path = r.abs_path => q = r

\* C21 as stated: every settled created event whose file exists and is not
\* ignored is classified, organized and then recorded in the inventory
\* exactly once, at the path organize returned (the original path when
\* organize failed) with the classification's label, tags and MIME type
C21_ProcessedFileRecorded ==
    [][\A t \in 1..Len(timers) :
          CreateSettles(t)
          => /\ timers'[t].calls = {"classify_file", "organize_file", "add_file"}
             /\ RecordedOnce(t)]_vars

\* C21 amended: the three calls are made for every such event, and the file
\* is recorded as stated unless add_file itself fails, in which case the
\* inventory is left as it was
C21_ProcessedFileRecordedUnlessAddFails ==
    [][\A t \in 1..Len(timers) :
          CreateSettles(t)
          => /\ timers'[t].calls = {"classify_file", "organize_file", "add_file"}
             /\ IF "add_file" \in timers'[t].failed
                THEN inventory' = inventory
                ELSE RecordedOnce(t)]_vars

\* a file that was moved is in the inventory at its new path, and after a
\* later event whose move failed the file is in the inventory at its
\* original path
C21_Witness ==
    /\ \E t \in 1..Len(timers) :
          /\ timers[t].state = "done" /\ timers[t].event_type = "created"
          /\ timers[t].failed = {"organize_file"}
          /\ \E r \in inventory : r.abs_path = timers[t].file_path /\ r.label = "documents"
    /\ \E r \in inventory : r.abs_path \notin EventPaths /\ IsFile(fs, r.abs_path)

----------------------------------------------------------------------------
(* Frame properties of the organizer.                                      *)

\* C22: when the classification carries no move_to, organize_file returns
\* the source path and reports no move and no error; nothing is created,
\* moved or deleted on the filesystem and nothing is logged
C22_NoMoveRuleNoChange ==
    [][(OrgStep /\ cls.move_to = TplNone)
       => (/\ call'.ret = OrgSrc
           /\ ~call'.moved
           /\ ~call'.error
           /\ ~call'.raised
           /\ fs' = fs
           /\ activity_log' = activity_log)]_vars

\* organize_file has returned for a classification without move_to, and the
\* file is where it was
C22_Witness ==
    /\ call.op = "organize_file"
    /\ cls.move_to = TplNone
    /\ call.ret = call.file_path
    /\ IsFile(fs, call.file_path)
    /\ nops > 0

----------------------------------------------------------------------------
(* Properties of the fallback classification.                              *)

\* the chain of the fallback, first hit first: the test of each link and the
\* label and tags it gives
FallbackChain(name, mime_type) ==
    <<[hit |-> NameWords(name) \cap FinancePatterns # {},
       label |-> "finance", tags |-> {"auto-classified"}],
      [hit |-> MimeStartsWith(mime_type, "image/"),
       label |-> "media", tags |-> {"image", "auto-classified"}],
      [hit |-> MimeStartsWith(mime_type, "video/"),
       label |-> "media", tags |-> {"video", "auto-classified"}],
      [hit |-> MimeStartsWith(mime_type, "audio/"),
       label |-> "media", tags |-> {"audio", "auto-classified"}],
      [hit |-> name.ext \in {".pdf", ".txt"},
       label |-> "documents", tags |-> {"document", "auto-classified"}],
      [hit |-> name.ext = ".py",
       label |-> "code", tags |-> {"source-code", "auto-classified"}],
      [hit |-> name.ext = ".zip",
       label |-> "archives", tags |-> {"archive", "auto-classified"}],
      [hit |-> TRUE, label |-> "other", tags |-> {"unclassified"}]>>

FirstHit(chain) == CHOOSE i \in 1..Len(chain) : chain[i].hit /\ \A j \in 1..(i - 1) : ~chain[j].hit

\* C23: without a matching rule the label and tags are those of the first
\* hit in the order finance word in the name, MIME prefix image, video,
\* audio, document extension, code extension, archive extension, else other
\* with tag unclassified; classify_file gives that result with confidence 0.5
\* and without rule_matched; photo.png with image/png gives media with tags
\* image and auto-classified
C23_FallbackFirstMatchChain ==
    /\ call.op = "_fallback_classification" =>
          LET chain == FallbackChain(Name(call.file_path), call.mime_type)
              link == chain[FirstHit(chain)]
          IN  call.ret = [label |-> link.label, tags |-> link.tags]
    /\ (call.op = "classify_file" /\ rules = <<>>) =>
          LET chain == FallbackChain(Name(call.file_path), call.ret.mime_type)
              link == chain[FirstHit(chain)]
          IN  /\ call.ret.label = link.label
              /\ call.ret.tags = link.tags
              /\ call.ret.confidence = 5
              /\ call.ret.rule_matched = NoRule
              /\ Name(call.file_path) = PhotoName =>
                     /\ call.ret.label = "media"
                     /\ call.ret.tags = {"image", "auto-classified"}

\* a file with a finance word in its name and an image MIME type has been
\* given the finance label
C23_Witness ==
    /\ call.op = "_fallback_classification"
    /\ NameWords(Name(call.file_path)) \cap FinancePatterns # {}
    /\ call.mime_type = "image/png"
    /\ call.ret.label = "finance"

----------------------------------------------------------------------------
(* Properties of the rule document.                                        *)

----------------------------------------------------------------------------
(* The pending-entry map.                                                  *)

KeyOfTimer(t) == EventKey(timers[t].event_type, timers[t].file_path)

\* C25: the lookup, cancel and insert of an arriving event and the removal
\* by an expiring timer never interleave for one key: a timer removes an
\* entry only while the observer thread is not inside _debounce_event for
\* that key, it removes no entry but its own, and at every moment at most
\* one timer per key is started, not cancelled and not yet dispatched
C25_PendingMapMutuallyExclusive ==
    [][/\ \A t \in 1..Len(timers) :
             Settles(t)
             => /\ ~(obs.pc # "idle" /\ EventKey(obs.event_type, obs.file_path) = KeyOfTimer(t))
                /\ KeyIn(_debounce_events, KeyOfTimer(t))
                       => TimerOf(_debounce_events, KeyOfTimer(t)) = t
       /\ \A t, u \in 1..Len(timers') :
             (/\ timers'[t].state = "waiting" /\ timers'[u].state = "waiting"
              /\ timers'[t].event_type = timers'[u].event_type
              /\ timers'[t].file_path = timers'[u].file_path)
             => t = u]_vars

----------------------------------------------------------------------------
(* Termination of conflict resolution.                                     *)

Resolving == call.op = "_resolve_filename_conflict" /\ call.pc = "loop"

\* C26: _resolve_filename_conflict returns after testing at most 1000
\* numbered candidates: every round of its loop tests one more candidate,
\* never more than 1000, and either returns or goes on with the next
\* counter; when the destination and all 1000 candidates exist it returns
\* the destination unchanged, and otherwise the first free candidate
C26_ResolveTerminates ==
    [][Resolving
       => /\ call'.examined = call.examined + 1
          /\ call'.examined <= MaxConflicts
          /\ call'.pc = "loop" => /\ call'.counter = call.counter + 1
                                  /\ call'.counter <= MaxConflicts
          /\ call'.pc = "returned" =>
                /\ call'.ret = _resolve_filename_conflict(fs, call.destination_path)
                /\ Exhausted(fs, call.destination_path)
                       => (call'.ret = call.destination_path
                           /\ call'.examined = MaxConflicts)]_vars

\* the loop has returned the destination after testing all 1000 candidates
C26_Witness ==
    /\ call.op = "_resolve_filename_conflict"
    /\ call.pc = "returned"
    /\ call.examined = MaxConflicts
    /\ call.ret = call.destination_path
    /\ Exhausted(fs, call.destination_path)

----------------------------------------------------------------------------
(* Soundness of a reported match.                                          *)

\* every condition present in rule.when holds for the classified file
ConditionsHold(rule) ==
    LET c == rule.when
        file_name == Name(call.file_path)
        mime_type == MimeOf(file_name)
        st_size == SizeOf(NodeAt(fs, call.file_path))
    IN  /\ "filename_regex" \in c.has
              => Search(c.filename_regex, NameWords(file_name)) = "yes"
        /\ "path_regex" \in c.has
              => Search(c.path_regex, PathWords(call.file_path)) = "yes"
        /\ "mime_in" \in c.has => mime_type \in c.mime_in
        /\ "mime_startswith" \in c.has
              => MimeStartsWith(mime_type, c.mime_startswith)
        /\ "size_lt_bytes" \in c.has => st_size < c.size_lt_bytes
        /\ "size_gt_bytes" \in c.has => st_size > c.size_gt_bytes

\* C27: when classify_file reports rule_matched = R, a stored rule named R
\* is active, every condition present in its when holds for the file, and
\* the label, tags and move_to are that rule's; a rule stored only inactive
\* is never reported, whatever its priority; an active rule without
\* conditions matches every file, so some rule is reported whenever the
\* classification did not fail.
C27_MatchSoundness ==
    Classified =>
        /\ call.ret.rule_matched # NoRule
              => \E i \in 1..Len(rules) :
                     /\ rules[i].active
                     /\ ConditionsHold(rules[i])
                     /\ ReportsRule(rules[i])
        /\ \A i \in 1..Len(rules) :
              (/\ ~rules[i].active
               /\ \A j \in 1..Len(rules) :
                      rules[j].active => rules[j].name # rules[i].name)
              => call.ret.rule_matched # rules[i].name
        /\ \A i \in 1..Len(rules) :
              (rules[i].active /\ rules[i].when.has = {})
              => /\ MatchOf(i) = "yes"
                 /\ call.ret.confidence # 0 => call.ret.rule_matched # NoRule

\* an inactive rule with the lowest priority number matches the file and a
\* rule without conditions is the one reported
C27_Witness ==
    /\ Classified
    /\ \E i, j \in 1..Len(rules) :
          /\ ~rules[i].active
          /\ MatchOf(i) = "yes"
          /\ \A k \in 1..Len(rules) : k # i => Priority(rules[i]) < Priority(rules[k])
          /\ rules[j].active
          /\ rules[j].when.has = {}
          /\ ReportsRule(rules[j])
    /\ \E k \in 1..Len(rules) :
          /\ rules[k].active
          /\ "size_gt_bytes" \in rules[k].when.has
          /\ SizeOf(NodeAt(fs, call.file_path)) = rules[k].when.size_gt_bytes

----------------------------------------------------------------------------
(* Dry runs leave everything as it is.                                     *)

DryStep == call'.op = "dry_run_organize"

\* C28: dry_run_organize creates, moves and deletes no file or directory
\* and writes no activity-log entry and no inventory row, whatever the
\* file, the move_to template of the classification and the state of the
\* destination (free, occupied, every numbered candidate occupied).
C28_DryRunHasNoEffects ==
    [][DryStep => /\ fs' = fs
                  /\ activity_log' = activity_log
                  /\ inventory' = inventory]_vars

\* a dry run with a template whose destination was occupied has reported
\* a numbered candidate, with the destination directory of another file
\* still missing
C28_Witness ==
    /\ call.op = "dry_run_organize"
    /\ call.classification.move_to # TplNone
    /\ call.ret.would_move
    /\ Exists(fs, _expand_path_template(call.classification.move_to,
                                        call.file_path, clock))
    /\ call.ret.destination
           = Candidate(_expand_path_template(call.classification.move_to,
                                             call.file_path, clock), 1)
    /\ ~call.ret.destination_exists
    /\ activity_log = <<>>

----------------------------------------------------------------------------
(* The life cycle of the watcher.                                          *)

\* C29: start() on a FileWatcher that is not running, a stopped one
\* included, does not raise: it starts the observer, so that the watcher
\* reaches Running again and events are delivered again.
C29_StoppedWatcherStartsAgain ==
    [][(ctl = "idle" /\ ~_running /\ call'.op = "start")
       => (/\ call'.outcome = "starting"
           /\ observer' = "alive"
           /\ watches' # {})]_vars

----------------------------------------------------------------------------
(* Independence of the debounce keys.                                      *)

\* two events, or timers, of the same event type and path
SameKey(a, b) == a.event_type = b.event_type /\ a.file_path = b.file_path

\* timer t and what the map holds for it are the same after the step
Untouched(t) ==
    /\ timers'[t] = timers[t]
    /\ {e \in _debounce_events' : e.timer = t} = {e \in _debounce_events : e.timer = t}

\* after the step, the event of timer t is the only one there has been for
\* its event type and path: no other timer, no event in _debounce_event
OnlyOfItsKey(t) ==
    /\ \A u \in 1..Len(timers') : u # t => ~SameKey(timers'[u], timers'[t])
    /\ obs'.pc # "idle" => ~SameKey(obs', timers'[t])

\* C30: an event for one key (event type + path) leaves the timers and map
\* entries of every other key as they are, in _debounce_event as well as
\* when a timer fires and _process_event runs; so a timer whose key had no
\* other event is never cancelled or replaced, stays registered while it
\* waits, and is dispatched once.  A created and a moved event for the
\* same path are two such keys, as are events for two paths.
C30_KeysIndependent ==
    [][/\ \A t \in 1..Len(timers) :
             (obs.pc # "idle" /\ obs' # obs /\ ~SameKey(obs, timers[t]))
             => Untouched(t)
       /\ \A t, u \in 1..Len(timers) :
             (obs' = obs /\ timers'[u] # timers[u] /\ ~SameKey(timers[u], timers[t]))
             => Untouched(t)
       /\ \A t \in 1..Len(timers') :
             OnlyOfItsKey(t)
             => /\ timers'[t].state # "cancelled"
                /\ ~timers'[t].superseded
                /\ timers'[t].state = "waiting"
                       => (/\ timers'[t].dispatched = <<>>
                           /\ \E e \in _debounce_events' : e.timer = t)
                /\ timers'[t].state \in {"fired", "done"}
                       => Len(timers'[t].dispatched) = 1]_vars

\* a moved event, then a created event for the same path and a moved event
\* for another path: three keys, each dispatched once and settled
C30_Witness ==
    /\ Len(timers) = 3
    /\ \E t, u, w \in 1..3 :
          /\ u < t
          /\ timers[t].event_type = "created"
          /\ timers[u].event_type = "moved"
          /\ timers[t].file_path = timers[u].file_path
          /\ timers[w].file_path # timers[t].file_path
    /\ \A t \in 1..3 : timers[t].state = "done" /\ Len(timers[t].dispatched) = 1

====
